---- MODULE Spec2Model ----
(***************************************************************************)
(* Escrow-as-a-service backend (EAAS/backend): the 2-of-3 contract engine, *)
(* the websocket action handlers with their per-connection ORM sessions,   *)
(* the wallet ledger and the Redis occupancy set.                          *)
(*                                                                         *)
(* None is written "None" (strings), 0 (contract ids) or NoSig             *)
(* (signatures).  A signature value records what the RSA-PSS primitive     *)
(* binds: the private key that made it and the message it was made over.   *)
(*                                                                         *)
(* Store: SQLite through SQLAlchemy sessions, one per connection           *)
(* (database/db.py).  A SELECT sees the latest committed rows, a commit    *)
(* issues UPDATEs of the changed columns with the values the session       *)
(* holds, and no row carries a version.  Connections may be served by      *)
(* different server processes, so the handlers' accesses to the store and  *)
(* to Redis interleave step by step.                                       *)
(*                                                                         *)
(* Taken as working: utils.room_to_dict, which reads two attributes the    *)
(* Room model of this snapshot does not declare (evidence_submitted,       *)
(* ai_verification_result), so that rooms get created and connections      *)
(* reach their receive loop; and the two manager methods the endpoint      *)
(* calls before connect (get_connections_in_room, remove_user_from_room),  *)
(* which redis_manager.py does not define: they read the occupancy set and *)
(* remove an identity from it.                                             *)
(***************************************************************************)
EXTENDS Integers, FiniteSets, Sequences, TLC

\* ------------------------------------------------------------------ enums
\* class Party / class Decision (smart_contract.py)
Party == {"BUYER", "SELLER", "AI_ORACLE"}
Decision == {"RELEASE_TO_SELLER", "REFUND_TO_BUYER"}
\* iteration order of contract["signatures"] (insertion order of the dict)
PartyOrder == <<"BUYER", "SELLER", "AI_ORACLE">>

\* ------------------------------------------------------------------ bounds
\* contract ids a forged message can name: 1..MaxContractId
MaxContractId == 2
\* the standalone engine's clock runs over 0..MaxClock hours
MaxClock == 25
\* websocket connections served at once, by any number of server processes
NConn == 3

\* ------------------------------------------------------------------ users, keys
SELLER_ID == "s"
BUYER_ID == "b"
OTHER_BUYER_ID == "b2"
Users == {SELLER_ID, BUYER_ID, OTHER_BUYER_ID}
\* private keys: one per registered user, the arbiter's, and an attacker's
AI_PRIVATE_KEY == "kA"
PrivateKeys == {"kS", "kB", "kB2", "kA", "kX"}
PrivateKeyOfUser(u) == CASE u = SELLER_ID -> "kS" [] u = BUYER_ID -> "kB" [] OTHER -> "kB2"

\* CryptoUtils.generate_keypair: the public half of a pair
PublicKeyOf(private_key) == <<"pub", private_key>>
AI_PUBLIC_KEY == PublicKeyOf(AI_PRIVATE_KEY)

\* the f-string "{contract_id}:{party}:{decision}"
CanonicalMessage(contract_id, party, decision) == <<contract_id, party, decision>>

\* CryptoUtils.sign_message
sign_message(message, private_key) == [key |-> private_key, msg |-> message]

\* CryptoUtils.verify_signature: the signature was made with the private half of
\* public_key, over exactly this message
verify_signature(message, signature, public_key) ==
    /\ PublicKeyOf(signature.key) = public_key
    /\ signature.msg = message

NoSig == [key |-> "None", msg |-> <<0, "None", "None">>]
TimeoutImplicit == [key |-> "TIMEOUT_IMPLICIT", msg |-> <<0, "None", "None">>]
\* what a client can send as a signature: any key over any canonical message
Signatures ==
    { sign_message(CanonicalMessage(i, p, d), k) :
        i \in 1..MaxContractId, p \in Party, d \in Decision, k \in PrivateKeys }

EmptySlot == [decision |-> "None", signature_hex |-> NoSig, verified |-> FALSE]

\* ------------------------------------------------------------------ contract_logic.py
create_contract(contract_id, buyer_id, seller_id, amount, buyer_pk, seller_pk, ai_pk) ==
    [ contract_id |-> contract_id,
      buyer_id |-> buyer_id,
      seller_id |-> seller_id,
      amount |-> amount,
      public_keys |-> [p \in Party |->
          CASE p = "BUYER" -> buyer_pk [] p = "SELLER" -> seller_pk [] OTHER -> ai_pk],
      status |-> "ACTIVE",
      signatures |-> [p \in Party |-> EmptySlot],
      released_to |-> "None",
      \* the keys handle_confirm_product_delivered adds later (absent here)
      seller_signed |-> FALSE,
      seller_decision |-> "None" ]

\* room.contract is None
NoContract ==
    [ contract_id |-> 0, buyer_id |-> "None", seller_id |-> "None", amount |-> 0,
      public_keys |-> [p \in Party |-> <<"pub", "None">>],
      status |-> "None",
      signatures |-> [p \in Party |-> EmptySlot],
      released_to |-> "None", seller_signed |-> FALSE, seller_decision |-> "None" ]

\* decision_counts.get(decision, 0) after the loop over the three slots
DecisionCount(signatures, decision) ==
    Cardinality({p \in Party :
        signatures[p].verified /\ signatures[p].decision = decision})

\* keys of decision_counts in insertion order: the decision of the first verified
\* slot (in PartyOrder) comes first
RECURSIVE DecisionOrderFrom(_, _)
DecisionOrderFrom(signatures, i) ==
    IF i > Len(PartyOrder) THEN <<>>
    ELSE LET s == signatures[PartyOrder[i]]
             rest == DecisionOrderFrom(signatures, i + 1)
             tail == SelectSeq(rest, LAMBDA d : d # s.decision)
         IN IF s.verified /\ s.decision # "None" THEN <<s.decision>> \o tail ELSE rest
DecisionOrder(signatures) == DecisionOrderFrom(signatures, 1)

\* a faulty variant: two agreeing signatures are not enough
_try_execute_NeedsThree(contract) ==
    IF contract.status # "ACTIVE" THEN contract
    ELSE LET order == DecisionOrder(contract.signatures)
             win == SelectSeq(order,
                        LAMBDA d : DecisionCount(contract.signatures, d) >= 3)
         IN IF win = <<>> THEN contract
            ELSE [contract EXCEPT !.status = "COMPLETED",
                     !.released_to = IF win[1] = "RELEASE_TO_SELLER"
                                     THEN contract.seller_id ELSE contract.buyer_id]

_try_execute(contract) ==
    IF contract.status # "ACTIVE" THEN contract
    ELSE LET order == DecisionOrder(contract.signatures)
             win == SelectSeq(order,
                        LAMBDA d : DecisionCount(contract.signatures, d) >= 2)
         IN IF win = <<>> THEN contract
            ELSE [contract EXCEPT !.status = "COMPLETED",
                     !.released_to = IF win[1] = "RELEASE_TO_SELLER"
                                     THEN contract.seller_id ELSE contract.buyer_id]

\* a faulty variant: the status of the contract is not looked at
sign_raises_AnyStatus(contract, party, decision, signature_hex) ==
    IF ~verify_signature(CanonicalMessage(contract.contract_id, party, decision),
                         signature_hex, contract.public_keys[party])
    THEN "InvalidSignature"
    ELSE "None"

\* the exception sign raises, "None" when it returns
sign_raises(contract, party, decision, signature_hex) ==
    IF contract.status # "ACTIVE" THEN "ContractNotActive"
    ELSE IF ~verify_signature(CanonicalMessage(contract.contract_id, party, decision),
                              signature_hex, contract.public_keys[party])
    THEN "InvalidSignature"
    ELSE "None"

\* a faulty variant: the decision is left out of the verified message
sign_AnyDecision(contract, party, decision, signature_hex) ==
    IF contract.status # "ACTIVE" THEN contract
    ELSE IF ~(/\ PublicKeyOf(signature_hex.key) = contract.public_keys[party]
              /\ signature_hex.msg[1] = contract.contract_id
              /\ signature_hex.msg[2] = party)
    THEN contract
    ELSE _try_execute([contract EXCEPT !.signatures[party] =
            [decision |-> decision, signature_hex |-> signature_hex, verified |-> TRUE]])

\* a faulty variant: a slot that is already signed is not written again
sign_KeepsFirst(contract, party, decision, signature_hex) ==
    IF sign_raises(contract, party, decision, signature_hex) # "None" THEN contract
    ELSE IF contract.signatures[party].verified THEN _try_execute(contract)
    ELSE _try_execute([contract EXCEPT !.signatures[party] =
            [decision |-> decision, signature_hex |-> signature_hex, verified |-> TRUE]])

\* the contract after sign: unchanged when it raises
sign(contract, party, decision, signature_hex) ==
    IF sign_raises(contract, party, decision, signature_hex) # "None" THEN contract
    ELSE _try_execute([contract EXCEPT !.signatures[party] =
            [decision |-> decision, signature_hex |-> signature_hex, verified |-> TRUE]])


\* ------------------------------------------------------------------ smart_contract.py
\* timedelta(hours=24) of create_contract
TimeoutHours == 24

EmptySignature == [decision |-> "None", signature |-> NoSig, verified |-> FALSE]

SecureSmartContract_create_contract(contract_id, buyer_id, seller_id, amount, buyer_pk, seller_pk, ai_pk, created_at) ==
    [ contract_id |-> contract_id,
      buyer_id |-> buyer_id,
      seller_id |-> seller_id,
      amount |-> amount,
      public_keys |-> [p \in Party |->
          CASE p = "BUYER" -> buyer_pk [] p = "SELLER" -> seller_pk [] OTHER -> ai_pk],
      status |-> "ACTIVE",
      funds_locked |-> TRUE,
      signatures |-> [p \in Party |-> EmptySignature],
      timeout_at |-> created_at + TimeoutHours,
      timeout_expired |-> FALSE,
      released_to |-> "None" ]

SecureSmartContract_execute_contract(contract, decision) ==
    [contract EXCEPT !.status = "COMPLETED",
                     !.funds_locked = FALSE,
                     !.released_to = IF decision = "RELEASE_TO_SELLER"
                                     THEN contract.seller_id ELSE contract.buyer_id]

SecureSmartContract_try_execute(contract) ==
    IF contract.status # "ACTIVE" THEN contract
    ELSE LET order == DecisionOrder(contract.signatures)
             win == SelectSeq(order, LAMBDA d : DecisionCount(contract.signatures, d) >= 2)
         IN IF win = <<>> THEN contract
            ELSE SecureSmartContract_execute_contract(contract, win[1])

SecureSmartContract_sign_raises(contract, party, decision, signature) ==
    IF contract.status # "ACTIVE" THEN "ContractNotActive"
    ELSE IF ~verify_signature(CanonicalMessage(contract.contract_id, party, decision),
                              signature, contract.public_keys[party])
    THEN "InvalidSignature"
    ELSE "None"

SecureSmartContract_sign(contract, party, decision, signature) ==
    IF SecureSmartContract_sign_raises(contract, party, decision, signature) # "None"
    THEN contract
    ELSE SecureSmartContract_try_execute([contract EXCEPT !.signatures[party] =
            [decision |-> decision, signature |-> signature, verified |-> TRUE]])

\* a faulty variant: the buyer slot is filled without looking at the deadline
check_timeout_AnyTime(contract, time) ==
    IF contract.status # "ACTIVE" THEN contract
    ELSE LET filled == IF ~contract.signatures["BUYER"].verified
                       THEN [contract EXCEPT !.signatures["BUYER"] =
                               [decision |-> "RELEASE_TO_SELLER",
                                signature |-> TimeoutImplicit,
                                verified |-> TRUE]]
                       ELSE contract
         IN SecureSmartContract_try_execute(filled)

\* a faulty variant: the deadline alone executes the contract in favour of the seller
check_timeout_ExecutesAlone(contract, time) ==
    IF contract.status # "ACTIVE" THEN contract
    ELSE IF time >= contract.timeout_at
    THEN SecureSmartContract_execute_contract(
            [contract EXCEPT !.timeout_expired = TRUE], "RELEASE_TO_SELLER")
    ELSE contract

check_timeout(contract, time) ==
    IF contract.status # "ACTIVE" THEN contract
    ELSE IF time >= contract.timeout_at
    THEN LET expired == [contract EXCEPT !.timeout_expired = TRUE]
             filled == IF ~expired.signatures["BUYER"].verified
                       THEN [expired EXCEPT !.signatures["BUYER"] =
                               [decision |-> "RELEASE_TO_SELLER",
                                signature |-> TimeoutImplicit,
                                verified |-> TRUE]]
                       ELSE expired
         IN SecureSmartContract_try_execute(filled)
    ELSE contract

\* verify_all_signatures: the audit report, one entry per slot
verify_all_signatures(contract) ==
    [party_name \in Party |->
        LET sig_data == contract.signatures[party_name] IN
        IF sig_data.signature # NoSig /\ sig_data.signature # TimeoutImplicit
        THEN [ verified |-> verify_signature(
                               CanonicalMessage(contract.contract_id, party_name,
                                                sig_data.decision),
                               sig_data.signature, contract.public_keys[party_name]),
               decision |-> sig_data.decision,
               note |-> "None" ]
        ELSE [ verified |-> sig_data.verified,
               decision |-> sig_data.decision,
               note |-> IF sig_data.signature = TimeoutImplicit
                        THEN "Timeout implicit" ELSE "Not signed" ]]

\* ------------------------------------------------------------------ database/models.py, register.py
\* initial_balance of create_user
InitialBuyerBalance == 1000
InitialSellerBalance == 500
Role(u) == IF u = SELLER_ID THEN "SELLER" ELSE "BUYER"
\* the amounts a seller creates the room with
Amounts == {600}
Descriptions == {"d1"}
\* EVIDENCE_REQUIREMENTS.get(category, []) for two of the classifier's categories
EvidenceLists == {<<"file_upload", "screenshot_of_deliverable">>, <<>>}
Verdicts == {"APPROVE", "REJECT"}

\* a Room row: the columns the handlers read and write
NewRoom(amount) ==
    [ buyer_id |-> "None", amount |-> amount, description |-> "None",
      status |-> "WAITING_FOR_BUYER", contract |-> NoContract,
      dispute_status |-> "None", required_evidence |-> <<>>, ai_verdict |-> "None",
      messages |-> <<>> ]

\* a Wallet row, and a Wallet object of a session (loaded or expired)
NewWallet(u) ==
    [ balance |-> IF Role(u) = "BUYER" THEN InitialBuyerBalance ELSE InitialSellerBalance,
      locked |-> 0 ]
ExpiredWallet == [loaded |-> FALSE, balance |-> 0, locked |-> 0]
\* a Room object whose attributes are expired: every use reloads it first
ExpiredRoom == NewRoom(0)

\* ------------------------------------------------------------------ ORM session of a connection
\* the phrase of the room, and a phrase and a user id that have no row
ROOM_PHRASE == "r1"
NO_ROOM_PHRASE == "r0"
NO_USER_ID == "u0"
NotSeen == <<"None", "None">>
NewSession ==
    [ user |-> "None", pc |-> "closed", handler |-> "None",
      room |-> ExpiredRoom, seen |-> NotSeen, dirty |-> {}, leftover |-> {},
      current_occupancy |-> 0, stale |-> FALSE,
      room_phrase |-> "None", reason |-> "None", reader |-> "None",
      missed |-> FALSE,
      wl |-> [u \in Users |-> ExpiredWallet], wdirty |-> {} ]

\* room.<attr> = value: the attribute joins the UPDATE when its value changes
SetAttr(s, attr, value) ==
    [s EXCEPT !.room[attr] = value,
              !.dirty = IF value # s.room[attr] THEN @ \cup {attr} ELSE @]
\* flag_modified(room, attr)
flag_modified(s, attr) == [s EXCEPT !.dirty = @ \cup {attr}]
\* a faulty variant: the row is read without dropping the object's pending changes
refresh_KeepsPending(s, row) ==
    [s EXCEPT !.room = [a \in DOMAIN row |-> IF a \in s.dirty THEN s.room[a] ELSE row[a]],
              !.seen = <<row.status, row.contract.status>>]

\* db.refresh(room): the row as persisted, pending changes of the object dropped
\* (seen: the room status and contract status the handler checks its guard on;
\* leftover: the pending changes a handler that raised has left on the object)
refresh(s, row) ==
    [s EXCEPT !.room = row, !.dirty = {}, !.leftover = {},
              !.seen = <<row.status, row.contract.status>>]
\* db.query(Wallet).filter_by(user_id=u).first(): an object the session still
\* holds unexpired keeps its attribute values
query_wallet(s, u, rows) ==
    IF s.wl[u].loaded THEN s
    ELSE [s EXCEPT !.wl[u] = [loaded |-> TRUE, balance |-> rows[u].balance,
                              locked |-> rows[u].locked]]
SetWallet(s, u, field, value) ==
    [s EXCEPT !.wl[u][field] = value,
              !.wdirty = IF value # s.wl[u][field] THEN @ \cup {<<u, field>>} ELSE @]
\* the handler returns or raises, and the connection is back in its receive
\* loop: nothing is rolled back, the Room object keeps its pending changes (its
\* other attributes are reloaded before their next use), Wallet objects stay as
\* loaded
Returned(s) ==
    [s EXCEPT !.pc = "idle", !.handler = "None",
              !.room = [a \in DOMAIN s.room |->
                           IF a \in s.dirty THEN s.room[a] ELSE ExpiredRoom[a]],
              !.leftover = s.dirty,
              !.seen = NotSeen]
\* db.commit() expires every object of the session
Expired(s) ==
    [s EXCEPT !.room = ExpiredRoom, !.dirty = {}, !.leftover = {}, !.seen = NotSeen,
              !.wl = [u \in Users |-> ExpiredWallet], !.wdirty = {}]
\* the rows after the UPDATEs db.commit() flushes: changed attributes only
CommittedRoom(s, row) ==
    [a \in DOMAIN row |-> IF a \in s.dirty THEN s.room[a] ELSE row[a]]
CommittedWallets(s, rows) ==
    [u \in Users |->
        [ balance |-> IF <<u, "balance">> \in s.wdirty THEN s.wl[u].balance
                      ELSE rows[u].balance,
          locked |-> IF <<u, "locked">> \in s.wdirty THEN s.wl[u].locked
                     ELSE rows[u].locked ]]


\* ------------------------------------------------------------------ state
VARIABLES
    lc,      \* a contract dictionary handled by contract_logic alone
    lcall,   \* the last call on it: its arguments and what it raised
    sc,      \* the contract held by a SecureSmartContract instance
    now,     \* datetime.now() of that instance, in hours since the contract's creation
    scall,   \* the last call on the instance
    room,    \* the persisted Room row
    wallets, \* the persisted Wallet rows, by user id
    next_contract_id,  \* the next token CryptoUtils.generate_id returns
    occupancy,         \* the room's occupancy set in Redis: user ids
    funds_released,    \* history: per contract id, the commits that moved its amount
                       \* from the buyer's locked funds to the recipient's balance
    conn,    \* websocket connections: the endpoint's position and its ORM session
    pubsub   \* a RedisConnectionManager's local table and reader task for the room,
             \* with the room's channel

logicVars == <<lc, lcall>>
engineVars == <<sc, now, scall>>
dbVars == <<room, wallets>>
roomVars == <<room, wallets, next_contract_id, occupancy, funds_released, conn>>
readerVars == <<pubsub>>
vars ==
    <<lc, lcall, sc, now, scall, room, wallets, next_contract_id, occupancy,
      funds_released, conn, pubsub>>

Conns == 1..NConn

NoCall == [op |-> "None", party |-> "None", decision |-> "None",
           signature |-> NoSig, raised |-> "None", previous |-> EmptySlot]
NoEngineCall == [op |-> "None", party |-> "None", decision |-> "None", raised |-> "None"]

InitLogicVars ==
    /\ lc = create_contract(1, BUYER_ID, SELLER_ID, 100,
                PublicKeyOf(PrivateKeyOfUser(BUYER_ID)),
                PublicKeyOf(PrivateKeyOfUser(SELLER_ID)), AI_PUBLIC_KEY)
    /\ lcall = NoCall

InitEngineVars ==
    /\ sc = SecureSmartContract_create_contract(1, BUYER_ID, SELLER_ID, 100,
                PublicKeyOf(PrivateKeyOfUser(BUYER_ID)),
                PublicKeyOf(PrivateKeyOfUser(SELLER_ID)), AI_PUBLIC_KEY, 0)
    /\ now = 0
    /\ scall = NoEngineCall

\* a room created by the seller, nobody connected
InitRoomVars ==
    /\ \E amount \in Amounts : room = NewRoom(amount)
    /\ wallets = [u \in Users |-> NewWallet(u)]
    /\ next_contract_id = 1
    /\ funds_released = [i \in 1..MaxContractId |-> 0]
    /\ occupancy = {}
    /\ conn = [c \in Conns |-> NewSession]

\* the buyer has joined and the seller and the buyer (from two devices) are in
\* their receive loops
ConnUser(c) == IF c = 1 THEN SELLER_ID ELSE BUYER_ID
\* the rooms of the walk-throughs: a joined room of amount 100 or of one of Amounts,
\* buyer and seller with their registration balances
ScenarioAmounts == Amounts \cup {100}
InitScenarioRoomVars ==
    /\ \E amount \in ScenarioAmounts :
          room = [NewRoom(amount) EXCEPT !.buyer_id = BUYER_ID,
                                         !.status = "AWAITING_DESCRIPTION"]
    /\ wallets = [u \in Users |-> NewWallet(u)]
    /\ next_contract_id = 1
    /\ funds_released = [i \in 1..MaxContractId |-> 0]
    /\ occupancy = {SELLER_ID, BUYER_ID}
    /\ conn = [c \in Conns |-> [NewSession EXCEPT !.user = ConnUser(c), !.pc = "idle",
                                             !.room_phrase = ROOM_PHRASE,
                                             !.reader = "subscribed"]]

\* the buyer's wallet when the room is joined: as registered, or with the amount
\* of an earlier room locked by lock-funds there
BuyerWallets ==
    {NewWallet(BUYER_ID)} \cup
    { [balance |-> NewWallet(BUYER_ID).balance - a, locked |-> a] : a \in Amounts }

InitJoinedRoomVars ==
    /\ \E amount \in Amounts :
          room = [NewRoom(amount) EXCEPT !.buyer_id = BUYER_ID,
                                         !.status = "AWAITING_DESCRIPTION"]
    /\ \E w \in BuyerWallets :
          wallets = [u \in Users |-> IF u = BUYER_ID THEN w ELSE NewWallet(u)]
    /\ next_contract_id = 1
    /\ funds_released = [i \in 1..MaxContractId |-> 0]
    /\ occupancy = {SELLER_ID, BUYER_ID}
    /\ conn = [c \in Conns |-> [NewSession EXCEPT !.user = ConnUser(c), !.pc = "idle",
                                             !.room_phrase = ROOM_PHRASE,
                                             !.reader = "subscribed"]]

\* sockets of one server process, and the messages published on the channel
Sockets == {"ws1", "ws2", "ws3"}
MaxPublished == 2
NoMessage == 0

\* a manager holding the sockets of local_connections, its reader task subscribed
NewPubsub(local_connections) ==
    [ local_connections |-> local_connections,
      task |-> IF local_connections = {} THEN "None" ELSE "running",
      channel |-> <<>>,        \* published, not yet taken by get_message
      published |-> 0,
      message |-> NoMessage,   \* the message the for loop is forwarding
      connections |-> {},      \* the sockets the loop has still to visit
      resized |-> FALSE,       \* the set was changed while the loop iterates it
      gone |-> {},             \* sockets whose client has gone away
      sent |-> <<>> ]          \* history: the send_json calls and what they raised

InitReaderVars == pubsub = NewPubsub({})

Init == InitLogicVars /\ InitEngineVars /\ InitRoomVars /\ InitReaderVars
InitJoined == InitLogicVars /\ InitEngineVars /\ InitJoinedRoomVars /\ InitReaderVars
InitScenario == InitLogicVars /\ InitEngineVars /\ InitScenarioRoomVars /\ InitReaderVars

\* ------------------------------------------------------------------ contract_logic alone
LogicSign(party, decision, signature_hex) ==
    /\ lc' = sign(lc, party, decision, signature_hex)
    /\ lcall' = [op |-> "sign", party |-> party, decision |-> decision,
                 signature |-> signature_hex,
                 raised |-> sign_raises(lc, party, decision, signature_hex),
                 previous |-> lc.signatures[party]]
    /\ UNCHANGED <<engineVars, readerVars, roomVars>>

NextLogic ==
    \E party \in Party, decision \in Decision, signature_hex \in Signatures :
        LogicSign(party, decision, signature_hex)

SpecLogic == Init /\ [][NextLogic]_vars

\* ------------------------------------------------------------------ SecureSmartContract alone
EngineSign(party, decision, signature) ==
    /\ sc' = SecureSmartContract_sign(sc, party, decision, signature)
    /\ scall' = [op |-> "sign", party |-> party, decision |-> decision,
                 raised |-> SecureSmartContract_sign_raises(sc, party, decision, signature)]
    /\ UNCHANGED <<now, logicVars, readerVars, roomVars>>

EngineCheckTimeout ==
    /\ sc' = check_timeout(sc, now)
    /\ scall' = [op |-> "check_timeout", party |-> "None", decision |-> "None",
                 raised |-> "None"]
    /\ UNCHANGED <<now, logicVars, readerVars, roomVars>>

Tick ==
    /\ now < MaxClock
    /\ now' = now + 1
    /\ UNCHANGED <<sc, scall, logicVars, readerVars, roomVars>>

NextEngine ==
    \/ \E party \in Party, decision \in Decision, signature \in Signatures :
        EngineSign(party, decision, signature)
    \/ EngineCheckTimeout
    \/ Tick

SpecEngine == Init /\ [][NextEngine]_vars

\* ------------------------------------------------------------------ event_handler.py
\* Each action is one stretch of a handler between two accesses to the shared
\* database; connections may be served by different processes, so stretches of
\* different connections interleave freely.  Every handler starts with the
\* dispatcher's db.refresh(room) (websocket.py:277).
Put(c, s) == conn' = [conn EXCEPT ![c] = s]

\* redis_manager.py:108-142.  publish hands the message to the subscriptions
\* that exist at that moment, and each reader task forwards what its
\* subscription receives to its socket.  A connection whose reader task has been
\* created by connect but has not subscribed yet, and whose client has not gone
\* away, is not handed the message: missed records that.
heard(s) ==
    IF s.reader = "created" /\ s.pc \notin {"leave_commit", "cleanup"}
    THEN [s EXCEPT !.missed = TRUE] ELSE s
\* connection c's session becomes s and its handler publishes a message
broadcast_to_room(c, s) ==
    conn' = [d \in Conns |-> heard(IF d = c THEN s ELSE conn[d])]
Busy(s, handler, pc) == [s EXCEPT !.handler = handler, !.pc = pc]
roomFrame ==
    UNCHANGED <<room, wallets, next_contract_id, occupancy, funds_released,
                logicVars, engineVars, readerVars>>

\* the commit of session s moves the amount of s's completed contract: the buyer's
\* locked funds drop by it and the recipient's balance grows by it
MovesFunds(s, before, after) ==
    /\ s.room.contract.status = "COMPLETED"
    /\ after[s.room.buyer_id].locked = before[s.room.buyer_id].locked - s.room.amount
    /\ after[s.room.contract.released_to].balance =
           before[s.room.contract.released_to].balance + s.room.amount

\* db.commit(): the pending changes of connection c's session reach the rows
Flush(c) ==
    /\ room' = CommittedRoom(conn[c], room)
    /\ wallets' = CommittedWallets(conn[c], wallets)
    /\ funds_released' =
          IF MovesFunds(conn[c], wallets, CommittedWallets(conn[c], wallets))
          THEN [funds_released EXCEPT ![conn[c].room.contract.contract_id] = @ + 1]
          ELSE funds_released
    /\ UNCHANGED <<next_contract_id, occupancy, logicVars, engineVars, readerVars>>

\* db.commit() of a handler whose work ends with it
db_commit(c) ==
    /\ conn[c].pc = "commit"
    /\ Flush(c)
    /\ broadcast_to_room(c, Returned(Expired(conn[c])))

handle_propose_description(c, description) ==
    /\ conn[c].pc = "idle"
    /\ LET s == refresh(conn[c], room) IN
       IF s.user # s.room.buyer_id \/ s.room.status # "AWAITING_DESCRIPTION"
       THEN Put(c, Returned(s))
       ELSE IF description = "" THEN Put(c, Returned(s))
       ELSE Put(c, Busy(SetAttr(SetAttr(s, "description", description),
                                "status", "AWAITING_SELLER_APPROVAL"),
                        "propose_description", "commit"))
    /\ roomFrame

handle_approve_description(c) ==
    /\ conn[c].pc = "idle"
    /\ LET s == refresh(conn[c], room)
           is_seller_approving ==
               s.user = SELLER_ID /\ s.room.status = "AWAITING_SELLER_APPROVAL"
           is_buyer_approving ==
               s.user = s.room.buyer_id /\ s.room.status = "AWAITING_BUYER_APPROVAL"
       IN IF ~(is_seller_approving \/ is_buyer_approving) THEN Put(c, Returned(s))
          ELSE Put(c, Busy(SetAttr(s, "status", "AWAITING_SELLER_READY"),
                           "approve_description", "commit"))
    /\ roomFrame

\* a faulty variant: the party that is not named by the status may edit
handle_edit_description_OtherPartyEdits(c, description) ==
    /\ conn[c].pc = "idle"
    /\ LET s == refresh(conn[c], room)
           is_seller_turn == s.user = SELLER_ID /\ s.room.status = "AWAITING_BUYER_APPROVAL"
           is_buyer_turn ==
               s.user = s.room.buyer_id /\ s.room.status = "AWAITING_SELLER_APPROVAL"
       IN IF ~(is_seller_turn \/ is_buyer_turn) THEN Put(c, Returned(s))
          ELSE IF description = "" THEN Put(c, Returned(s))
          ELSE Put(c, Busy(SetAttr(SetAttr(s, "description", description), "status",
                                   IF is_seller_turn THEN "AWAITING_BUYER_APPROVAL"
                                   ELSE "AWAITING_SELLER_APPROVAL"),
                           "edit_description", "commit"))
    /\ roomFrame

handle_edit_description(c, description) ==
    /\ conn[c].pc = "idle"
    /\ LET s == refresh(conn[c], room)
           is_seller_turn == s.user = SELLER_ID /\ s.room.status = "AWAITING_SELLER_APPROVAL"
           is_buyer_turn ==
               s.user = s.room.buyer_id /\ s.room.status = "AWAITING_BUYER_APPROVAL"
       IN IF ~(is_seller_turn \/ is_buyer_turn) THEN Put(c, Returned(s))
          ELSE IF description = "" THEN Put(c, Returned(s))
          ELSE Put(c, Busy(SetAttr(SetAttr(s, "description", description), "status",
                                   IF is_seller_turn THEN "AWAITING_BUYER_APPROVAL"
                                   ELSE "AWAITING_SELLER_APPROVAL"),
                           "edit_description", "commit"))
    /\ roomFrame

handle_confirm_seller_ready(c) ==
    /\ conn[c].pc = "idle"
    /\ LET s == refresh(conn[c], room) IN
       IF s.user # SELLER_ID \/ s.room.status # "AWAITING_SELLER_READY"
       THEN Put(c, Returned(s))
       ELSE Put(c, Busy(SetAttr(s, "status", "AWAITING_PAYMENT"),
                        "confirm_seller_ready", "commit"))
    /\ roomFrame

\* a faulty variant: the room's status is not checked
handle_lock_funds_AnyState(c) ==
    /\ conn[c].pc = "idle"
    /\ LET s == refresh(conn[c], room) IN
       IF s.user # s.room.buyer_id
       THEN Put(c, Returned(s)) /\ UNCHANGED next_contract_id
       ELSE /\ next_contract_id <= MaxContractId
            /\ next_contract_id' = next_contract_id + 1
            /\ LET new_contract ==
                       create_contract(next_contract_id, s.room.buyer_id, SELLER_ID,
                           s.room.amount,
                           PublicKeyOf(PrivateKeyOfUser(s.room.buyer_id)),
                           PublicKeyOf(PrivateKeyOfUser(SELLER_ID)), AI_PUBLIC_KEY)
               IN Put(c, Busy(flag_modified(SetAttr(s, "contract", new_contract), "contract"),
                              "buyer_lock_funds", "lock_funds_wallet"))
    /\ UNCHANGED <<room, wallets, occupancy, funds_released, logicVars, engineVars, readerVars>>

\* lines 175-197: the guard, create_contract, room.contract = new_contract
handle_lock_funds(c) ==
    /\ conn[c].pc = "idle"
    /\ LET s == refresh(conn[c], room) IN
       IF s.user # s.room.buyer_id \/ s.room.status # "AWAITING_PAYMENT"
       THEN Put(c, Returned(s)) /\ UNCHANGED next_contract_id
       ELSE /\ next_contract_id <= MaxContractId
            /\ next_contract_id' = next_contract_id + 1
            /\ LET new_contract ==
                       create_contract(next_contract_id, s.room.buyer_id, SELLER_ID,
                           s.room.amount,
                           PublicKeyOf(PrivateKeyOfUser(s.room.buyer_id)),
                           PublicKeyOf(PrivateKeyOfUser(SELLER_ID)), AI_PUBLIC_KEY)
               IN Put(c, Busy(flag_modified(SetAttr(s, "contract", new_contract), "contract"),
                              "buyer_lock_funds", "lock_funds_wallet"))
    /\ UNCHANGED <<room, wallets, occupancy, funds_released, logicVars, engineVars, readerVars>>

\* a faulty variant: the balance is not compared with the amount
handle_lock_funds_wallet_AnyBalance(c) ==
    /\ conn[c].pc = "lock_funds_wallet"
    /\ LET s == query_wallet(conn[c], conn[c].user, wallets)
           user_wallet == s.wl[s.user]
       IN Put(c, Busy(
                 SetAttr(
                   SetWallet(
                     SetWallet(s, s.user, "balance", user_wallet.balance - s.room.amount),
                     s.user, "locked", user_wallet.locked + s.room.amount),
                   "status", "MONEY_SECURED"),
                 "buyer_lock_funds", "commit"))
    /\ roomFrame

\* lines 200-211: the wallet query, the balance check, the debit
handle_lock_funds_wallet(c) ==
    /\ conn[c].pc = "lock_funds_wallet"
    /\ LET s == query_wallet(conn[c], conn[c].user, wallets)
           user_wallet == s.wl[s.user]
       IN IF user_wallet.balance < s.room.amount THEN Put(c, Returned(s))
          ELSE Put(c, Busy(
                 SetAttr(
                   SetWallet(
                     SetWallet(s, s.user, "balance", user_wallet.balance - s.room.amount),
                     s.user, "locked", user_wallet.locked + s.room.amount),
                   "status", "MONEY_SECURED"),
                 "buyer_lock_funds", "commit"))
    /\ roomFrame

handle_confirm_product_delivered(c, signed_message) ==
    /\ conn[c].pc = "idle"
    /\ LET s == refresh(conn[c], room) IN
       IF s.user # SELLER_ID \/ s.room.status # "MONEY_SECURED" THEN Put(c, Returned(s))
       ELSE IF signed_message = NoSig THEN Put(c, Returned(s))
       ELSE IF sign_raises(s.room.contract, "SELLER", "RELEASE_TO_SELLER", signed_message)
               # "None"
       THEN Put(c, Returned(s))
       ELSE LET updated_contract ==
                    sign(s.room.contract, "SELLER", "RELEASE_TO_SELLER", signed_message)
                marked == [updated_contract EXCEPT !.seller_signed = TRUE,
                                                   !.seller_decision = "RELEASE_TO_SELLER"]
            IN Put(c, Busy(flag_modified(
                             SetAttr(SetAttr(s, "status", "PRODUCT_DELIVERED"),
                                     "contract", marked), "contract"),
                           "product_delivered", "commit"))
    /\ roomFrame

\* lines 264-298: the guard, sign, room.contract = updated_contract
handle_transaction_successfull(c, signed_message) ==
    /\ conn[c].pc = "idle"
    /\ LET s == refresh(conn[c], room) IN
       IF s.user # s.room.buyer_id \/ s.room.status # "PRODUCT_DELIVERED"
       THEN Put(c, Returned(s))
       ELSE IF signed_message = NoSig THEN Put(c, Returned(s))
       ELSE IF sign_raises(s.room.contract, "BUYER", "RELEASE_TO_SELLER", signed_message)
               # "None"
       THEN Put(c, Returned(s))
       ELSE LET updated_contract ==
                    sign(s.room.contract, "BUYER", "RELEASE_TO_SELLER", signed_message)
            IN Put(c, Busy(flag_modified(SetAttr(s, "contract", updated_contract), "contract"),
                           "transaction_successfull",
                           IF updated_contract.status = "COMPLETED"
                           THEN "transaction_successfull_wallets" ELSE "commit"))
    /\ roomFrame

\* a faulty variant: the amount is credited back to the buyer
handle_transaction_successfull_wallets_CreditsBuyer(c) ==
    /\ conn[c].pc = "transaction_successfull_wallets"
    /\ LET buyer_id == conn[c].room.buyer_id
           s == query_wallet(conn[c], buyer_id, wallets)
           s1 == SetWallet(s, buyer_id, "locked", s.wl[buyer_id].locked - s.room.amount)
           s2 == SetWallet(s1, buyer_id, "balance",
                           s1.wl[buyer_id].balance + s.room.amount)
       IN Put(c, Busy(SetAttr(s2, "status", "COMPLETE"), "transaction_successfull", "commit"))
    /\ roomFrame

\* lines 301-313: the wallet queries and the release
handle_transaction_successfull_wallets(c) ==
    /\ conn[c].pc = "transaction_successfull_wallets"
    /\ LET recipient_id == conn[c].room.contract.released_to
           buyer_id == conn[c].room.buyer_id
           s == query_wallet(query_wallet(conn[c], recipient_id, wallets), buyer_id, wallets)
           s1 == SetWallet(s, buyer_id, "locked", s.wl[buyer_id].locked - s.room.amount)
           s2 == SetWallet(s1, recipient_id, "balance",
                           s1.wl[recipient_id].balance + s.room.amount)
       IN Put(c, Busy(SetAttr(s2, "status", "COMPLETE"), "transaction_successfull", "commit"))
    /\ roomFrame

\* lines 323-355: the guard, sign, room.contract = updated_contract
handle_initiate_dispute(c, signed_message) ==
    /\ conn[c].pc = "idle"
    /\ LET s == refresh(conn[c], room) IN
       IF s.user # s.room.buyer_id \/ s.room.status # "PRODUCT_DELIVERED"
       THEN Put(c, Returned(s))
       ELSE IF signed_message = NoSig THEN Put(c, Returned(s))
       ELSE IF sign_raises(s.room.contract, "BUYER", "REFUND_TO_BUYER", signed_message)
               # "None"
       THEN Put(c, Returned(s))
       ELSE LET updated_contract ==
                    sign(s.room.contract, "BUYER", "REFUND_TO_BUYER", signed_message)
            IN Put(c, Busy(flag_modified(SetAttr(s, "contract", updated_contract), "contract"),
                           "init_dispute",
                           IF updated_contract.status = "COMPLETED"
                           THEN "initiate_dispute_wallets" ELSE "initiate_dispute_commit"))
    /\ roomFrame

\* lines 358-369: the recipient's wallet alone is queried and changed
handle_initiate_dispute_wallets(c) ==
    /\ conn[c].pc = "initiate_dispute_wallets"
    /\ LET recipient_id == conn[c].room.contract.released_to
           s == query_wallet(conn[c], recipient_id, wallets)
           s1 == SetWallet(s, recipient_id, "locked",
                           s.wl[recipient_id].locked - s.room.amount)
           s2 == SetWallet(s1, recipient_id, "balance",
                           s1.wl[recipient_id].balance + s.room.amount)
       IN Put(c, Busy(SetAttr(s2, "status", "COMPLETE"), "init_dispute",
                      "initiate_dispute_commit"))
    /\ roomFrame

\* line 371: the first commit
handle_initiate_dispute_commit(c) ==
    /\ conn[c].pc = "initiate_dispute_commit"
    /\ Flush(c)
    /\ Put(c, Busy(Expired(conn[c]), "init_dispute", "initiate_dispute_reload"))

\* lines 372-377: broadcast_state_update reads the expired room, which reloads
\* it; then the classifier call is awaited
handle_initiate_dispute_reload(c) ==
    /\ conn[c].pc = "initiate_dispute_reload"
    /\ broadcast_to_room(c, Busy(refresh(conn[c], room), "init_dispute",
                                 "initiate_dispute_classify"))
    /\ roomFrame

\* line 372: broadcast_state_update reloads the room, then the publish to the
\* broker raises
handle_initiate_dispute_broadcast_raises(c) ==
    /\ conn[c].pc = "initiate_dispute_reload"
    /\ Put(c, Returned(refresh(conn[c], room)))
    /\ roomFrame

\* lines 377-381: classifier.classify returns
handle_initiate_dispute_classified(c, required_evidence) ==
    /\ conn[c].pc = "initiate_dispute_classify"
    /\ Put(c, Busy(SetAttr(SetAttr(SetAttr(conn[c],
                     "dispute_status", "AWAITING_EVIDENCE"),
                     "required_evidence", required_evidence),
                     "status", "DISPUTE"),
                   "init_dispute", "commit"))
    /\ roomFrame

\* line 377: classifier.classify raises
handle_initiate_dispute_classify_raises(c) ==
    /\ conn[c].pc = "initiate_dispute_classify"
    /\ Put(c, Returned(conn[c]))
    /\ roomFrame

\* lines 391-402: the guard, dispute_status = IN_REVIEW
handle_finalize_submission(c) ==
    /\ conn[c].pc = "idle"
    /\ LET s == refresh(conn[c], room) IN
       IF s.user # SELLER_ID \/ s.room.dispute_status # "AWAITING_EVIDENCE"
       THEN Put(c, Returned(s))
       ELSE Put(c, Busy(SetAttr(s, "dispute_status", "IN_REVIEW"),
                        "finalize_submission", "finalize_submission_commit"))
    /\ roomFrame

\* line 403: the first commit
handle_finalize_submission_commit(c) ==
    /\ conn[c].pc = "finalize_submission_commit"
    /\ Flush(c)
    /\ Put(c, Busy(Expired(conn[c]), "finalize_submission", "finalize_submission_reload"))

\* lines 404-414: broadcast_state_update reloads the room; verify_evidence is awaited
handle_finalize_submission_reload(c) ==
    /\ conn[c].pc = "finalize_submission_reload"
    /\ broadcast_to_room(c, Busy(refresh(conn[c], room), "finalize_submission",
                                 "finalize_submission_verify"))
    /\ roomFrame

\* a faulty variant: the arbiter signs for the seller whatever the verdict
handle_finalize_submission_verified_AlwaysRelease(c, ai_decision) ==
    /\ conn[c].pc = "finalize_submission_verify"
    /\ LET s == SetAttr(flag_modified(SetAttr(conn[c], "ai_verdict", ai_decision),
                                      "ai_verdict"),
                        "dispute_status", "RESOLVED")
           contract_dict == s.room.contract
           ai_signature ==
               sign_message(CanonicalMessage(contract_dict.contract_id, "AI_ORACLE",
                                             "RELEASE_TO_SELLER"), AI_PRIVATE_KEY)
       IN IF sign_raises(contract_dict, "AI_ORACLE", "RELEASE_TO_SELLER", ai_signature)
               # "None"
          THEN Put(c, Returned(s))
          ELSE LET updated_contract ==
                       sign(contract_dict, "AI_ORACLE", "RELEASE_TO_SELLER", ai_signature)
               IN Put(c, Busy(flag_modified(SetAttr(s, "contract", updated_contract),
                                            "contract"),
                              "finalize_submission",
                              IF updated_contract.status = "COMPLETED"
                              THEN "finalize_submission_wallets" ELSE "commit"))
    /\ roomFrame

\* line 404: broadcast_state_update reloads the room, then the publish to the
\* broker raises
handle_finalize_submission_broadcast_raises(c) ==
    /\ conn[c].pc = "finalize_submission_reload"
    /\ Put(c, Returned(refresh(conn[c], room)))
    /\ roomFrame

\* lines 414-457: the verdict, the arbiter's signature, sign
handle_finalize_submission_verified(c, ai_decision) ==
    /\ conn[c].pc = "finalize_submission_verify"
    /\ LET s == SetAttr(flag_modified(SetAttr(conn[c], "ai_verdict", ai_decision),
                                      "ai_verdict"),
                        "dispute_status", "RESOLVED")
           contract_decision ==
               IF ai_decision = "APPROVE" THEN "RELEASE_TO_SELLER" ELSE "REFUND_TO_BUYER"
           contract_dict == s.room.contract
           message_to_sign ==
               CanonicalMessage(contract_dict.contract_id, "AI_ORACLE", contract_decision)
           ai_signature == sign_message(message_to_sign, AI_PRIVATE_KEY)
       IN IF sign_raises(contract_dict, "AI_ORACLE", contract_decision, ai_signature) # "None"
          THEN Put(c, Returned(s))
          ELSE LET updated_contract ==
                       sign(contract_dict, "AI_ORACLE", contract_decision, ai_signature)
               IN Put(c, Busy(flag_modified(SetAttr(s, "contract", updated_contract),
                                            "contract"),
                              "finalize_submission",
                              IF updated_contract.status = "COMPLETED"
                              THEN "finalize_submission_wallets" ELSE "commit"))
    /\ roomFrame

\* line 414: verify_evidence raises
handle_finalize_submission_verify_raises(c) ==
    /\ conn[c].pc = "finalize_submission_verify"
    /\ Put(c, Returned(conn[c]))
    /\ roomFrame

\* lines 460-480: the wallet queries and the release
handle_finalize_submission_wallets(c) ==
    /\ conn[c].pc = "finalize_submission_wallets"
    /\ LET recipient_id == conn[c].room.contract.released_to
           buyer_id == conn[c].room.buyer_id
           s == query_wallet(query_wallet(conn[c], recipient_id, wallets), buyer_id, wallets)
           s1 == SetWallet(s, buyer_id, "locked", s.wl[buyer_id].locked - s.room.amount)
           s2 == SetWallet(s1, recipient_id, "balance",
                           s1.wl[recipient_id].balance + s.room.amount)
       IN Put(c, Busy(SetAttr(s2, "status", "COMPLETE"), "finalize_submission", "commit"))
    /\ roomFrame

\* what a client can put in "signed_message" (NoSig: the field is missing)
SignedMessages(c) ==
    { sign_message(CanonicalMessage(contract_id, party, decision),
                   PrivateKeyOfUser(conn[c].user)) :
        contract_id \in 1..MaxContractId, party \in {"BUYER", "SELLER"},
        decision \in Decision } \cup {NoSig}
DescriptionInputs == Descriptions \cup {""}

NextHandlers ==
    \E c \in Conns :
        \/ db_commit(c)
        \/ \E description \in DescriptionInputs : handle_propose_description(c, description)
        \/ handle_approve_description(c)
        \/ \E description \in DescriptionInputs : handle_edit_description(c, description)
        \/ handle_confirm_seller_ready(c)
        \/ handle_lock_funds(c)
        \/ handle_lock_funds_wallet(c)
        \/ \E m \in SignedMessages(c) : handle_confirm_product_delivered(c, m)
        \/ \E m \in SignedMessages(c) : handle_transaction_successfull(c, m)
        \/ handle_transaction_successfull_wallets(c)
        \/ \E m \in SignedMessages(c) : handle_initiate_dispute(c, m)
        \/ handle_initiate_dispute_wallets(c)
        \/ handle_initiate_dispute_commit(c)
        \/ handle_initiate_dispute_reload(c)
        \/ handle_initiate_dispute_broadcast_raises(c)
        \/ \E e \in EvidenceLists : handle_initiate_dispute_classified(c, e)
        \/ handle_initiate_dispute_classify_raises(c)
        \/ handle_finalize_submission(c)
        \/ handle_finalize_submission_commit(c)
        \/ handle_finalize_submission_reload(c)
        \/ handle_finalize_submission_broadcast_raises(c)
        \/ \E v \in Verdicts : handle_finalize_submission_verified(c, v)
        \/ handle_finalize_submission_verify_raises(c)
        \/ handle_finalize_submission_wallets(c)

\* the handlers of a room whose buyer has joined, every connection in its receive loop
Spec == InitJoined /\ [][NextHandlers]_vars

\* The handlers when the calls to the classifier, the verifier and the broker
\* succeed.
NextDispute ==
    \E c \in Conns :
        \/ db_commit(c)
        \/ \E description \in DescriptionInputs : handle_propose_description(c, description)
        \/ handle_approve_description(c)
        \/ \E description \in DescriptionInputs : handle_edit_description(c, description)
        \/ handle_confirm_seller_ready(c)
        \/ handle_lock_funds(c)
        \/ handle_lock_funds_wallet(c)
        \/ \E m \in SignedMessages(c) : handle_confirm_product_delivered(c, m)
        \/ \E m \in SignedMessages(c) : handle_transaction_successfull(c, m)
        \/ handle_transaction_successfull_wallets(c)
        \/ \E m \in SignedMessages(c) : handle_initiate_dispute(c, m)
        \/ handle_initiate_dispute_wallets(c)
        \/ handle_initiate_dispute_commit(c)
        \/ handle_initiate_dispute_reload(c)
        \/ \E e \in EvidenceLists : handle_initiate_dispute_classified(c, e)
        \/ handle_finalize_submission(c)
        \/ handle_finalize_submission_commit(c)
        \/ handle_finalize_submission_reload(c)
        \/ \E v \in Verdicts : handle_finalize_submission_verified(c, v)
        \/ handle_finalize_submission_wallets(c)

\* the handler that connection c is running takes its next step
Continues(c) == NextDispute /\ conn[c].pc # "idle" /\ conn'[c] # conn[c]

\* the seller sends finalize_submission and the handler accepts it
SellerFinalizes ==
    \E c \in Conns :
        /\ conn[c].user = SELLER_ID
        /\ handle_finalize_submission(c)
        /\ conn'[c].pc = "finalize_submission_commit"

\* every running handler goes on to its end (the awaited calls return), and the
\* seller finalizes the submission whenever the room awaits the evidence
SpecDispute ==
    /\ InitJoined /\ [][NextDispute]_vars
    /\ \A c \in Conns : WF_vars(Continues(c))
    /\ SF_vars(SellerFinalizes)

\* the walk-throughs: the actions arrive one after the other, each handled to
\* its end before the next connection's action is received
NextScenario ==
    /\ NextHandlers
    /\ \E c \in Conns : \A d \in Conns \ {c} : conn[d].pc = "idle" /\ conn'[d] = conn[d]
SpecScenario == InitScenario /\ [][NextScenario]_vars

\* The room's flow next to the only timeout check of the code.  check_timeout is
\* a method of SecureSmartContract and walks that object's own contracts; the
\* handlers keep the room's contract in the room's row through contract_logic,
\* which has no timeout check, and ACTION_DISPATCHER has no action that runs one.
\* The seller signs on the engine as well, so that the timeout check has a
\* contract to complete.
EngineSellerSigns ==
    \E decision \in Decision :
        EngineSign("SELLER", decision,
                   sign_message(CanonicalMessage(sc.contract_id, "SELLER", decision),
                                PrivateKeyOfUser(SELLER_ID)))

\* a step of the seller's connection
SellersStep ==
    NextScenario /\ \A c \in Conns : conn[c].user # SELLER_ID => conn'[c] = conn[c]

NextTimeout ==
    \/ NextScenario
    \/ Tick
    \/ EngineCheckTimeout
    \/ EngineSellerSigns

\* the seller's connection, the clock and the timeout check keep running; the
\* buyer may stay silent
SpecTimeout ==
    /\ InitScenario /\ [][NextTimeout]_vars
    /\ WF_vars(Tick) /\ WF_vars(EngineCheckTimeout) /\ WF_vars(SellersStep)

\* ------------------------------------------------------------------ claims on the contract engine
\* two of the three slots hold verified signatures with the same decision
TwoAgree(signatures) ==
    \E d \in Decision :
        Cardinality({p \in Party : signatures[p].verified /\ signatures[p].decision = d}) >= 2

\* C1: under any sequence of sign and check_timeout calls a contract's status
\* changes from ACTIVE to COMPLETED at most once (a COMPLETED contract stays
\* COMPLETED), and in the step that completes it at least two of the three
\* slots hold verified signatures with the same decision.
C1_CompletesOnceOnTwoAgreeing ==
    [][ /\ (sc.status = "COMPLETED" => sc'.status = "COMPLETED")
        /\ (sc.status = "ACTIVE" /\ sc'.status = "COMPLETED" => TwoAgree(sc'.signatures))
        /\ sc'.status \in {"ACTIVE", "COMPLETED"} ]_vars

\* C1 witness: completed by the timeout check, the buyer slot implicit
C1_Witness ==
    /\ sc.status = "COMPLETED"
    /\ scall.op = "check_timeout"
    /\ sc.signatures["BUYER"].signature = TimeoutImplicit
    /\ TwoAgree(sc.signatures)

\* the signature is made with the private half of the key registered for the
\* party, over exactly "{contract_id}:{party}:{decision}"
IsExactSignature(contract, party, decision, signature) ==
    /\ contract.public_keys[party] = <<"pub", signature.key>>
    /\ signature.msg = <<contract.contract_id, party, decision>>

\* C2: sign records a signature only if it is exact for the call; a signature
\* that is not (another key, contract id, party or decision) is rejected, with
\* InvalidSignature on an ACTIVE contract, and leaves the contract as it was.
C2_ForgedSignatureRejected ==
    [][ lcall' # lcall \/ lc' # lc =>
          LET exact == IsExactSignature(lc, lcall'.party, lcall'.decision, lcall'.signature)
          IN /\ (lcall'.raised = "None" => exact)
             /\ (~exact => /\ lc' = lc
                           /\ lcall'.raised =
                                IF lc.status = "ACTIVE" THEN "InvalidSignature"
                                ELSE "ContractNotActive") ]_vars

\* C2 witness: Scenario C, a signature over the right message by another key
\* was rejected and the slot is still empty
C2_Witness ==
    /\ lcall.raised = "InvalidSignature"
    /\ lcall.signature.msg = <<lc.contract_id, lcall.party, lcall.decision>>
    /\ lcall.signature.key = "kX"
    /\ lc.signatures[lcall.party] = EmptySlot
    /\ \E p \in Party : lc.signatures[p].verified

\* ------------------------------------------------------------------ websocket.py, redis_manager.py
\* One connection attempt, from the endpoint's queries to its cleanup.  Every
\* step ends at an await or at an access to the database or to Redis, which are
\* shared by the server processes.
redisFrame ==
    UNCHANGED <<room, wallets, next_contract_id, funds_released, logicVars, engineVars, readerVars>>

\* send_websocket_error: the socket is closed with the reason; the endpoint
\* returns into its cleanup
refused(s, reason) == Busy([s EXCEPT !.reason = reason], "connect", "cleanup")

\* websocket.py:88-133: the room, the user and the wallet are queried; a missing
\* one closes the socket.  register.py adds a user and its wallet in one commit
\* and no row is ever deleted, so a user has a wallet.
ws_query(c, room_phrase, user_id) ==
    /\ conn[c].pc = "closed"
    /\ LET s == [conn[c] EXCEPT !.room_phrase = room_phrase,
                                !.user = IF user_id \in Users THEN user_id ELSE "None"]
       IN IF room_phrase # ROOM_PHRASE THEN Put(c, refused(s, "Room not found"))
          ELSE IF user_id \notin Users
          THEN Put(c, refused(refresh(s, room), "User not found"))
          ELSE Put(c, Busy(query_wallet(refresh(s, room), user_id, wallets),
                           "connect", "authorize"))
    /\ roomFrame

\* websocket.py:139-194: role-based authorization; a first buyer becomes the
\* room's buyer
ws_authorize(c) ==
    /\ conn[c].pc = "authorize"
    /\ LET s == conn[c]
           passed == Busy(s, "connect", "stale_check")
       IN IF Role(s.user) = "BUYER"
          THEN IF s.room.buyer_id = "None"
               THEN IF s.room.amount > s.wl[s.user].balance
                    THEN Put(c, refused(s, "Insufficient balance"))
                    ELSE Put(c, Busy(SetAttr(SetAttr(s, "buyer_id", s.user),
                                             "status", "AWAITING_DESCRIPTION"),
                                     "connect", "join_commit"))
               ELSE IF s.room.buyer_id # s.user THEN Put(c, refused(s, "Room occupied"))
               ELSE Put(c, passed)
          ELSE IF SELLER_ID # s.user THEN Put(c, refused(s, "Unauthorized seller"))
          ELSE Put(c, passed)
    /\ roomFrame

\* websocket.py:155-156: db.commit(); db.refresh(room)
ws_join_commit(c) ==
    /\ conn[c].pc = "join_commit"
    /\ Flush(c)
    /\ Put(c, Busy(refresh(Expired(conn[c]), CommittedRoom(conn[c], room)),
                   "connect", "stale_check"))

\* the ids in the room's occupancy set
get_connections_in_room(members) == members
\* the occupancy set without user_id
remove_user_from_room(members, user_id) == members \ {user_id}

\* websocket.py:198-203: is the participant's id already in the occupancy set
ws_stale_check(c) ==
    /\ conn[c].pc = "stale_check"
    /\ LET stale == conn[c].user \in get_connections_in_room(occupancy)
       IN Put(c, Busy([conn[c] EXCEPT !.stale = stale], "connect",
                      IF stale THEN "evict" ELSE "connect_scard"))
    /\ roomFrame

\* websocket.py:207: the stale entry is removed
ws_evict(c) ==
    /\ conn[c].pc = "evict"
    /\ occupancy' = remove_user_from_room(occupancy, conn[c].user)
    /\ Put(c, Busy(conn[c], "connect", "connect_scard"))
    /\ redisFrame

\* redis_manager.py:73-75: current_occupancy = scard(occupancy_key); room full at 2
connect_scard(c) ==
    /\ conn[c].pc = "connect_scard"
    /\ LET current_occupancy == Cardinality(occupancy)
           s == [conn[c] EXCEPT !.current_occupancy = current_occupancy]
       IN IF current_occupancy >= 2 THEN Put(c, refused(s, "Room full"))
          ELSE Put(c, Busy(s, "connect", "connect_sadd"))
    /\ roomFrame

\* redis_manager.py:78-90: sadd(occupancy_key, user_id); the socket joins the
\* local table.  websocket.py:229-264: the snapshot is sent, the join message
\* committed, and the connection enters its receive loop
connect_sadd(c) ==
    /\ conn[c].pc = "connect_sadd"
    /\ occupancy' = occupancy \cup {conn[c].user}
    /\ Put(c, [Returned(Expired(conn[c])) EXCEPT !.current_occupancy = 0, !.stale = FALSE,
                                                  !.reader = "created"])
    /\ redisFrame

\* websocket.py:341-366: the client goes away; the leave message is committed
ws_close(c) ==
    /\ conn[c].pc = "idle"
    /\ Put(c, Busy(conn[c], "connect", "cleanup"))
    /\ roomFrame

\* a faulty variant: the socket and the reader task go, the id stays in the set
ws_cleanup_KeepsIdentity(c) ==
    /\ conn[c].pc = "cleanup"
    /\ occupancy' = occupancy
    /\ Put(c, NewSession)
    /\ redisFrame

\* a faulty variant: the id is removed from the room's set whatever phrase the
\* attempt named
ws_cleanup_AnyPhrase(c) ==
    /\ conn[c].pc = "cleanup"
    /\ occupancy' = occupancy \ {conn[c].user}
    /\ Put(c, NewSession)
    /\ redisFrame

\* websocket.py:369-372, redis_manager.py:92-106: manager.disconnect, run for
\* refused attempts too when the user was found: the reader task of the
\* connection is cancelled and srem(occupancy_key, user_id) takes the id out of
\* the set of the phrase the attempt named
ws_cleanup(c) ==
    /\ conn[c].pc = "cleanup"
    /\ occupancy' = IF conn[c].user # "None" /\ conn[c].room_phrase = ROOM_PHRASE
                    THEN occupancy \ {conn[c].user} ELSE occupancy
    /\ Put(c, NewSession)
    /\ redisFrame

NextPresence ==
    \E c \in Conns :
        \/ \E room_phrase \in {ROOM_PHRASE, NO_ROOM_PHRASE}, user_id \in Users \cup {NO_USER_ID} :
              ws_query(c, room_phrase, user_id)
        \/ ws_authorize(c)
        \/ ws_join_commit(c)
        \/ ws_stale_check(c)
        \/ ws_evict(c)
        \/ connect_scard(c)
        \/ connect_sadd(c)
        \/ ws_close(c)
        \/ ws_cleanup(c)

\* connection attempts on a room the seller has created
SpecPresence == Init /\ [][NextPresence]_vars

\* ------------------------------------------------------------------ the message log
\* Room.messages is a JSON column holding the whole list: a session appends to
\* its loaded copy and db.commit() writes the copy back.  The actions below
\* follow the log through joins, chat messages and leaves.
MaxLog == 2

\* room.messages.append(message); flag_modified(room, "messages")
append_message(s, message) ==
    flag_modified([s EXCEPT !.room.messages = Append(@, message)], "messages")

\* redis_manager.py:78-90: sadd(occupancy_key, user_id); the socket joins the
\* local table.  websocket.py:229-246: the snapshot is sent from the Room object
\* loaded by the endpoint's query (or by the refresh after the buyer's join)
connect_joined(c) ==
    /\ conn[c].pc = "connect_sadd"
    /\ occupancy' = occupancy \cup {conn[c].user}
    /\ Put(c, Busy([conn[c] EXCEPT !.current_occupancy = 0, !.stale = FALSE,
                                    !.reader = "created"],
                   "connect", "join_message"))
    /\ redisFrame

\* websocket.py:246-257: the join message is appended to the Room object as
\* loaded, committed and broadcast; the connection enters its receive loop
ws_join_message(c) ==
    /\ conn[c].pc = "join_message"
    /\ Len(conn[c].room.messages) < MaxLog
    /\ LET s == append_message(conn[c], <<"joined", conn[c].user>>)
       IN /\ room' = CommittedRoom(s, room)
          /\ broadcast_to_room(c, Returned(Expired(s)))
    /\ UNCHANGED <<wallets, next_contract_id, occupancy, funds_released,
                   logicVars, engineVars, readerVars>>

\* event_handler.py:48-65, after the dispatcher's db.refresh(room): a message
\* that is not a non-blank string is dropped, another is appended
handle_chat_message(c, message) ==
    /\ conn[c].pc = "idle"
    /\ LET s == refresh(conn[c], room) IN
       IF message = "" THEN Put(c, Returned(s))
       ELSE /\ Len(s.room.messages) < MaxLog
            /\ Put(c, Busy(append_message(s, <<"chat_message", s.user>>),
                           "chat_message", "commit"))
    /\ roomFrame

\* websocket.py:341-362: the client goes away; the room is refreshed and the
\* leave message appended
ws_leave_message(c) ==
    /\ conn[c].pc = "idle"
    /\ Len(room.messages) < MaxLog
    /\ Put(c, Busy(append_message(refresh(conn[c], room), <<"left", conn[c].user>>),
                   "connect", "leave_commit"))
    /\ roomFrame

\* websocket.py:363-364: db.commit() of the leave message and its broadcast;
\* manager.disconnect follows
ws_leave_commit(c) ==
    /\ conn[c].pc = "leave_commit"
    /\ Flush(c)
    /\ broadcast_to_room(c, Busy(Expired(conn[c]), "connect", "cleanup"))

\* redis_manager.py:113-117: the reader task created by connect gets to run and
\* subscribes to the room's channel
_pubsub_reader_subscribe(c) ==
    /\ conn[c].reader = "created"
    /\ Put(c, [conn[c] EXCEPT !.reader = "subscribed"])
    /\ roomFrame

ChatInputs == {"m", ""}

NextLog ==
    \E c \in Conns :
        \/ ws_query(c, ROOM_PHRASE, ConnUser(c))
        \/ ws_authorize(c)
        \/ ws_join_commit(c)
        \/ ws_stale_check(c)
        \/ ws_evict(c)
        \/ connect_scard(c)
        \/ connect_joined(c)
        \/ ws_join_message(c)
        \/ \E message \in ChatInputs : handle_chat_message(c, message)
        \/ db_commit(c)
        \/ ws_leave_message(c)
        \/ ws_leave_commit(c)
        \/ ws_cleanup(c)
        \/ _pubsub_reader_subscribe(c)

\* the seller and the buyer connect, chat and leave
SpecLog == Init /\ [][NextLog]_vars

\* ------------------------------------------------------------------ the reader task
\* redis_manager.py:108-142, one manager with its local table and reader task.
readerFrame == UNCHANGED <<logicVars, engineVars, roomVars>>

\* what send_json raises on a socket whose client has gone away: the
\* RuntimeError the loop passes over, or another exception
SendExceptions == {"RuntimeError", "WebSocketDisconnect"}

\* broadcast_to_room: publish hands the message to the reader's subscription
publish ==
    /\ pubsub.published < MaxPublished
    /\ pubsub' = [pubsub EXCEPT !.published = @ + 1,
                                !.channel = IF pubsub.task = "running"
                                            THEN Append(@, pubsub.published + 1) ELSE @]
    /\ readerFrame

\* lines 118-125: get_message returns a message and the for loop over the
\* local table starts
_pubsub_reader_get_message ==
    /\ pubsub.task = "running" /\ pubsub.message = NoMessage /\ pubsub.channel # <<>>
    /\ pubsub' = [pubsub EXCEPT !.channel = Tail(@),
                                !.message = Head(pubsub.channel),
                                !.connections = pubsub.local_connections,
                                !.resized = FALSE]
    /\ readerFrame

\* lines 126-128: await connection.send_json(data) on a socket that is open
_pubsub_reader_send_json(connection) ==
    /\ pubsub.task = "running" /\ pubsub.message # NoMessage /\ ~pubsub.resized
    /\ connection \in pubsub.connections \ pubsub.gone
    /\ pubsub' = [pubsub EXCEPT !.connections = @ \ {connection},
                                !.sent = Append(@, [message |-> pubsub.message,
                                                    connection |-> connection,
                                                    raised |-> "None"])]
    /\ readerFrame

\* lines 129-142: send_json raises.  except RuntimeError: pass, the loop goes
\* on to the next socket; any other exception reaches except Exception: break
\* and the task ends
_pubsub_reader_send_json_raises(connection, exception) ==
    /\ pubsub.task = "running" /\ pubsub.message # NoMessage /\ ~pubsub.resized
    /\ connection \in pubsub.connections \cap pubsub.gone
    /\ LET attempt == [message |-> pubsub.message, connection |-> connection,
                       raised |-> exception]
       IN IF exception = "RuntimeError"
          THEN pubsub' = [pubsub EXCEPT !.connections = @ \ {connection},
                                        !.sent = Append(@, attempt)]
          ELSE pubsub' = [pubsub EXCEPT !.connections = {}, !.message = NoMessage,
                                        !.task = "done",
                                        !.sent = Append(@, attempt)]
    /\ readerFrame

\* the for statement asks the set for its next socket: the loop ends when all
\* were visited; a set whose size changed meanwhile raises RuntimeError in the
\* for statement itself, outside the inner try, and the task ends (140-142)
_pubsub_reader_next ==
    /\ pubsub.task = "running" /\ pubsub.message # NoMessage
    /\ pubsub.resized \/ pubsub.connections = {}
    /\ pubsub' = [pubsub EXCEPT !.message = NoMessage, !.connections = {},
                                !.resized = FALSE,
                                !.task = IF pubsub.resized THEN "done" ELSE @]
    /\ readerFrame

\* the client of a local socket goes away
client_goes_away(websocket) ==
    /\ websocket \in pubsub.local_connections \ pubsub.gone
    /\ pubsub' = [pubsub EXCEPT !.gone = @ \cup {websocket}]
    /\ readerFrame

\* redis_manager.py:92-102, called by the endpoint of a socket whose client has
\* gone away: the socket is discarded; the task is cancelled when none is left
RedisConnectionManager_disconnect(websocket) ==
    /\ websocket \in pubsub.local_connections \cap pubsub.gone
    /\ LET left == pubsub.local_connections \ {websocket} IN
       pubsub' = IF left = {}
                 THEN [pubsub EXCEPT !.local_connections = left, !.task = "cancelled",
                                     !.message = NoMessage, !.connections = {},
                                     !.resized = FALSE]
                 ELSE [pubsub EXCEPT !.local_connections = left,
                                     !.resized = @ \/ pubsub.message # NoMessage]
    /\ readerFrame

NextReader ==
    \/ publish
    \/ _pubsub_reader_get_message
    \/ \E connection \in Sockets : _pubsub_reader_send_json(connection)
    \/ \E connection \in Sockets, exception \in SendExceptions :
          _pubsub_reader_send_json_raises(connection, exception)
    \/ _pubsub_reader_next
    \/ \E websocket \in Sockets : client_goes_away(websocket)
    \/ \E websocket \in Sockets : RedisConnectionManager_disconnect(websocket)

\* a manager with one to three local sockets and its reader task subscribed
InitReader ==
    /\ InitLogicVars /\ InitEngineVars /\ InitRoomVars
    /\ \E local_connections \in SUBSET Sockets \ {{}} :
          pubsub = NewPubsub(local_connections)

SpecReader == InitReader /\ [][NextReader]_vars

\* C13: sign on a contract whose status is not ACTIVE raises ContractNotActive
\* and changes nothing, so that once a decision has reached 2 signatures no party
\* can add or change a signature; the winning decision is the first one to reach
\* 2: the contract completes on the call that brings a decision to 2, in favour
\* of that decision, and no decision holds 2 while the contract is ACTIVE.
C13_SignOnCompletedRaises ==
    [][ /\ lc.status # "ACTIVE" =>
              lc' = lc /\ lcall'.raised = "ContractNotActive"
        /\ lc.status = "ACTIVE" =>
              \A d \in Decision : DecisionCount(lc.signatures, d) < 2
        /\ (lc.status = "ACTIVE" /\ lc'.status = "COMPLETED") =>
              /\ lcall'.raised = "None"
              /\ DecisionCount(lc'.signatures, lcall'.decision) = 2
              /\ lc'.released_to = IF lcall'.decision = "RELEASE_TO_SELLER"
                                   THEN lc.seller_id ELSE lc.buyer_id ]_vars

\* the party that signed the losing decision has called sign again on the
\* COMPLETED contract, with a valid signature for the winning decision
C13_Witness ==
    /\ lc.status = "COMPLETED"
    /\ lcall.op = "sign" /\ lcall.raised = "ContractNotActive"
    /\ \E d \in Decision :
          /\ DecisionCount(lc.signatures, d) = 2
          /\ lc.signatures[lcall.party].verified
          /\ lc.signatures[lcall.party].decision # d
          /\ lcall.decision = d
          /\ IsExactSignature(lc, lcall.party, d, lcall.signature)

\* C16 (scenario D): check_timeout on an ACTIVE contract at or after the
\* deadline with the buyer slot unverified fills that slot with an implicit
\* RELEASE_TO_SELLER record that counts in the tally and runs the tally again: the
\* contract completes, for the seller, exactly when the seller or the arbiter
\* already holds a verified RELEASE_TO_SELLER. Before the deadline, with the buyer
\* slot already verified, or on a contract that is not ACTIVE, check_timeout
\* changes no slot and completes nothing.
C16_CheckTimeout ==
    [][ EngineCheckTimeout =>
          LET due == /\ sc.status = "ACTIVE"
                     /\ now >= sc.timeout_at
                     /\ ~sc.signatures["BUYER"].verified
              backed == \E p \in {"SELLER", "AI_ORACLE"} :
                            /\ sc.signatures[p].verified
                            /\ sc.signatures[p].decision = "RELEASE_TO_SELLER"
          IN IF due
             THEN /\ sc'.signatures["BUYER"] =
                        [decision |-> "RELEASE_TO_SELLER", signature |-> TimeoutImplicit,
                         verified |-> TRUE]
                  /\ \A p \in {"SELLER", "AI_ORACLE"} :
                        sc'.signatures[p] = sc.signatures[p]
                  /\ DecisionCount(sc'.signatures, "RELEASE_TO_SELLER") =
                        DecisionCount(sc.signatures, "RELEASE_TO_SELLER") + 1
                  /\ (sc'.status = "COMPLETED") <=> backed
                  /\ sc'.status = "COMPLETED" => sc'.released_to = sc.seller_id
                  /\ sc'.status # "COMPLETED" =>
                        sc'.status = "ACTIVE" /\ sc'.released_to = "None"
             ELSE /\ sc'.signatures = sc.signatures
                  /\ sc'.status = sc.status
                  /\ sc'.released_to = sc.released_to ]_vars

\* the deadline has passed on a contract only the arbiter had signed, for the
\* seller, and check_timeout has completed it
C16_Witness ==
    /\ scall.op = "check_timeout"
    /\ now >= sc.timeout_at
    /\ sc.status = "COMPLETED" /\ sc.released_to = sc.seller_id
    /\ sc.signatures["BUYER"].signature = TimeoutImplicit
    /\ ~sc.signatures["SELLER"].verified
    /\ sc.signatures["AI_ORACLE"].decision = "RELEASE_TO_SELLER"

\* C17: verify_all_signatures reports a buyer slot filled by the timeout path as
\* not verified, although the slot has verified = true for the tally; for every
\* other slot it reports verified exactly when the stored signature verifies
\* against the canonical message and the registered key.
C17_AuditTellsTimeoutApart ==
    \A p \in Party :
        LET slot == sc.signatures[p]
            report == verify_all_signatures(sc)[p]
        IN IF slot.signature = TimeoutImplicit
           THEN slot.verified /\ ~report.verified
           ELSE report.verified <=>
                   /\ slot.signature # NoSig
                   /\ IsExactSignature(sc, p, slot.decision, slot.signature)

\* C30: on an ACTIVE contract a valid sign by a party that has already signed
\* writes that party's slot again: the slot holds the decision and signature of
\* the latest valid call, the other slots are untouched, there is one slot per
\* party, and the party is counted once: the contract executes with this call
\* exactly when another party's slot holds the same decision.
C30_ResignOverwritesSlot ==
    [][ (lcall' # lcall \/ lc' # lc) /\ lc.status = "ACTIVE" /\ lcall'.raised = "None" =>
          LET p == lcall'.party
          IN /\ lcall'.previous = lc.signatures[p]
             /\ DOMAIN lc'.signatures = Party
             /\ lc'.signatures[p] = [decision |-> lcall'.decision,
                                     signature_hex |-> lcall'.signature,
                                     verified |-> TRUE]
             /\ \A q \in Party \ {p} : lc'.signatures[q] = lc.signatures[q]
             /\ DecisionCount(lc'.signatures, lcall'.decision)
                  = 1 + Cardinality({q \in Party \ {p} :
                            /\ lc.signatures[q].verified
                            /\ lc.signatures[q].decision = lcall'.decision})
             /\ lc'.status = "COMPLETED" <=>
                  \E q \in Party \ {p} : /\ lc.signatures[q].verified
                                         /\ lc.signatures[q].decision = lcall'.decision ]_vars

\* C30 witness: a party that had signed one decision signed the other one; its
\* slot now holds the later decision and the contract, with one signer, is
\* still ACTIVE
C30_Witness ==
    /\ lcall.op = "sign" /\ lcall.raised = "None"
    /\ lcall.previous.verified
    /\ lcall.previous.decision # lcall.decision
    /\ lc.signatures[lcall.party].decision = lcall.decision
    /\ lc.signatures[lcall.party].signature_hex = lcall.signature
    /\ lc.status = "ACTIVE"

\* what C37 says of one contract
TwoOfThreeSettled(contract) ==
    /\ contract.status = "ACTIVE" =>
          \A d \in Decision : DecisionCount(contract.signatures, d) < 2
    /\ (\A p \in Party : contract.signatures[p].verified) => contract.status = "COMPLETED"
    /\ contract.status = "COMPLETED" =>
          contract.released_to =
              IF DecisionCount(contract.signatures, "RELEASE_TO_SELLER") >= 2
              THEN contract.seller_id ELSE contract.buyer_id

\* C37: an ACTIVE contract never holds two verified signatures with the same
\* decision; a contract whose three slots are verified is COMPLETED; and a
\* COMPLETED contract is released to the seller exactly when RELEASE_TO_SELLER is
\* the decision held by at least two slots, otherwise to the buyer.  Stated of
\* the contract of contract_logic and of the engine's contract.
C37_TwoAgreeingAlwaysExecute ==
    TwoOfThreeSettled(lc) /\ TwoOfThreeSettled(sc)

\* C37 witness: the seller and the buyer disagreed and the third signature
\* settled the contract: three verified slots, refund to the buyer
C37_Witness ==
    /\ \A p \in Party : lc.signatures[p].verified
    /\ lc.signatures["SELLER"].decision # lc.signatures["BUYER"].decision
    /\ lc.status = "COMPLETED"
    /\ lc.released_to = lc.buyer_id

\* ------------------------------------------------------------------ claims on the handlers
CommitPcs == {"commit", "initiate_dispute_commit", "finalize_submission_commit"}
\* connection c's session commits in this step
Commits(c) == conn[c].pc \in CommitPcs /\ conn'[c].pc # conn[c].pc
ContractIds == 1..MaxContractId

\* C3: fund release runs at most once per contract: whatever the interleaving of
\* transaction_successfull, init_dispute and finalize_submission handlers of the
\* room's connections, the amount leaves the buyer's locked funds for the
\* recipient's balance at most once for each contract.
C3_ReleaseAtMostOnce == \A i \in ContractIds : funds_released[i] <= 1

\* C4: every persisted wallet has balance >= 0 and locked >= 0.
C4_WalletsNonNegative ==
    \A u \in Users : wallets[u].balance >= 0 /\ wallets[u].locked >= 0

\* C5: the commit of a successful buyer_lock_funds lowers the buyer's balance by
\* exactly the room amount, raises the buyer's locked by exactly that amount,
\* stores the newly created ACTIVE contract on the room together with status
\* MONEY_SECURED, and changes no other wallet.
C5_LockFundsEffect ==
    [][\A c \in Conns :
         (Commits(c) /\ conn[c].handler = "buyer_lock_funds") =>
            LET buyer == conn[c].user
                A == room.amount
            IN /\ wallets'[buyer].balance = wallets[buyer].balance - A
               /\ wallets'[buyer].locked = wallets[buyer].locked + A
               /\ \A u \in Users \ {buyer} : wallets'[u] = wallets[u]
               /\ room'.status = "MONEY_SECURED"
               /\ room'.contract.status = "ACTIVE"
               /\ room'.contract.contract_id # room.contract.contract_id
               /\ room'.contract.amount = A
               /\ \A party \in Party : room'.contract.signatures[party] = EmptySlot]_vars

\* the handlers in which a signature can complete the room's contract
ReleaseHandlers == {"transaction_successfull", "init_dispute", "finalize_submission"}

\* C6: whenever a handler's signature completes the room's contract, the commit of
\* that handler lowers the buyer's locked by exactly the room amount A and raises
\* the recipient's balance by exactly A (the seller on RELEASE_TO_SELLER, the
\* buyer on REFUND_TO_BUYER); no other wallet field changes.
C6_CompletionEffect ==
    [][\A c \in Conns :
         ( /\ Commits(c)
           /\ "contract" \in conn[c].dirty
           /\ conn[c].room.contract.status = "COMPLETED" ) =>
            LET buyer == room.buyer_id
                A == room.amount
                decision == CHOOSE d \in Decision :
                                DecisionCount(conn[c].room.contract.signatures, d) >= 2
                recipient == IF decision = "RELEASE_TO_SELLER" THEN SELLER_ID ELSE buyer
            IN /\ conn[c].handler \in ReleaseHandlers
               /\ wallets'[buyer].locked = wallets[buyer].locked - A
               /\ wallets'[recipient].balance = wallets[recipient].balance + A
               /\ \A u \in Users \ {buyer} : wallets'[u].locked = wallets[u].locked
               /\ \A u \in Users \ {recipient} : wallets'[u].balance = wallets[u].balance]_vars

\* the actor and the room state each action requires (for edit_description: the
\* party the AWAITING_*_APPROVAL state names)
Required(action, user, r) ==
    CASE action = "propose_description" ->
            user = r.buyer_id /\ r.status = "AWAITING_DESCRIPTION"
      [] action \in {"approve_description", "edit_description"} ->
            \/ user = SELLER_ID /\ r.status = "AWAITING_SELLER_APPROVAL"
            \/ user = r.buyer_id /\ r.status = "AWAITING_BUYER_APPROVAL"
      [] action = "confirm_seller_ready" ->
            user = SELLER_ID /\ r.status = "AWAITING_SELLER_READY"
      [] action = "buyer_lock_funds" ->
            user = r.buyer_id /\ r.status = "AWAITING_PAYMENT"
      [] action = "product_delivered" ->
            user = SELLER_ID /\ r.status = "MONEY_SECURED"
      [] action \in {"transaction_successfull", "init_dispute"} ->
            user = r.buyer_id /\ r.status = "PRODUCT_DELIVERED"
      [] action = "finalize_submission" ->
            user = SELLER_ID /\ r.dispute_status = "AWAITING_EVIDENCE"
      [] OTHER -> FALSE

\* C8: an inbound action whose actor is not the required role, or whose room is
\* not in the required state, is a no-op: a connection in its receive loop starts
\* a handler's work only if the persisted room meets the action's requirement,
\* and the dispatch itself changes neither the room nor any wallet; otherwise
\* the connection is back in its receive loop with nothing pending.
C8_WrongActorOrStateIsNoOp ==
    [][\A c \in Conns :
         conn[c].pc = "idle" =>
            /\ conn'[c].pc # "idle" =>
                  /\ Required(conn'[c].handler, conn[c].user, room)
                  /\ <<room, wallets, funds_released>>' = <<room, wallets, funds_released>>
            /\ (conn'[c].pc = "idle" /\ conn'[c] # conn[c]) =>
                  /\ conn'[c].dirty = {} /\ conn'[c].wdirty = {}
                  /\ <<room, wallets, funds_released>>' = <<room, wallets, funds_released>>
      ]_vars

\* transaction_successfull has taken effect and the buyer's connections are back
\* in their receive loops, where a re-submission meets a COMPLETE room
C8_Witness ==
    /\ room.status = "COMPLETE"
    /\ room.contract.signatures["BUYER"].decision = "RELEASE_TO_SELLER"
    /\ funds_released[room.contract.contract_id] = 1
    /\ \A c \in Conns : conn[c].pc = "idle"
    /\ ~Required("transaction_successfull", BUYER_ID, room)

\* C9: in every committed state the room's contract is COMPLETED if and only if
\* the room amount has been moved out of the buyer's locked funds into the
\* recipient's balance.
C9_CompletedIffFundsMoved ==
    /\ room.contract.status = "COMPLETED" => funds_released[room.contract.contract_id] >= 1
    /\ \A i \in ContractIds :
          funds_released[i] >= 1 =>
              room.contract.contract_id = i /\ room.contract.status = "COMPLETED"

\* C10: every transition is a compare-and-swap on (room status, contract status):
\* a handler commits changes only while the persisted pair is still the one it
\* checked its guard on.
C10_CommitIsCompareAndSwap ==
    [][\A c \in Conns :
         (Commits(c) /\ (conn[c].dirty # {} \/ conn[c].wdirty # {})) =>
            <<room.status, room.contract.status>> = conn[c].seen]_vars

\* the edges of the room lifecycle, and of the dispute sub-state
LifecycleEdges ==
    { <<"WAITING_FOR_BUYER", "AWAITING_DESCRIPTION">>,
      <<"AWAITING_DESCRIPTION", "AWAITING_SELLER_APPROVAL">>,
      <<"AWAITING_SELLER_APPROVAL", "AWAITING_BUYER_APPROVAL">>,
      <<"AWAITING_BUYER_APPROVAL", "AWAITING_SELLER_APPROVAL">>,
      <<"AWAITING_SELLER_APPROVAL", "AWAITING_SELLER_READY">>,
      <<"AWAITING_BUYER_APPROVAL", "AWAITING_SELLER_READY">>,
      <<"AWAITING_SELLER_READY", "AWAITING_PAYMENT">>,
      <<"AWAITING_PAYMENT", "MONEY_SECURED">>,
      <<"MONEY_SECURED", "PRODUCT_DELIVERED">>,
      <<"PRODUCT_DELIVERED", "COMPLETE">>,
      <<"PRODUCT_DELIVERED", "DISPUTE">>,
      <<"DISPUTE", "COMPLETE">> }
DisputeEdges ==
    { <<"None", "AWAITING_EVIDENCE">>,
      <<"AWAITING_EVIDENCE", "IN_REVIEW">>,
      <<"IN_REVIEW", "RESOLVED">> }

\* C11: every change of the persisted room status follows an edge of the
\* lifecycle, and every change of dispute_status an edge AWAITING_EVIDENCE ->
\* IN_REVIEW -> RESOLVED, under any interleaving of the handlers: the status never
\* moves backwards and COMPLETE is never left.
C11_StatusFollowsLifecycle ==
    [][ /\ room'.status # room.status =>
              <<room.status, room'.status>> \in LifecycleEdges
        /\ room'.dispute_status # room.dispute_status =>
              <<room.dispute_status, room'.dispute_status>> \in DisputeEdges ]_vars

\* C12: in every reachable state the room's contract has released_to set if and
\* only if its status is COMPLETED, and a room's contract that has become
\* COMPLETED never becomes ACTIVE again.
C12_ReleasedIffCompletedForGood ==
    [][ /\ (room.contract.released_to # "None") <=> (room.contract.status = "COMPLETED")
        /\ (room'.contract.released_to # "None") <=> (room'.contract.status = "COMPLETED")
        /\ room.contract.status = "COMPLETED" => room'.contract.status # "ACTIVE" ]_vars

\* C14 (scenario A): in a room of amount 100 whose buyer started with balance
\* 1000, after lock-funds the buyer has balance 900 and locked 100; the seller
\* signs RELEASE_TO_SELLER on delivery, and once the buyer has signed
\* RELEASE_TO_SELLER on confirmation the contract is COMPLETED with released_to
\* the seller, the seller's balance has grown by 100, the buyer's locked is 0 and
\* the room is COMPLETE.
C14_ScenarioA ==
    room.amount = 100 =>
        LET sigs == room.contract.signatures IN
        /\ room.status \in {"MONEY_SECURED", "PRODUCT_DELIVERED"} =>
              /\ wallets[BUYER_ID] = [balance |-> 900, locked |-> 100]
              /\ room.contract.status = "ACTIVE"
        /\ room.status = "PRODUCT_DELIVERED" =>
              sigs["SELLER"].verified /\ sigs["SELLER"].decision = "RELEASE_TO_SELLER"
        /\ (sigs["BUYER"].verified /\ sigs["BUYER"].decision = "RELEASE_TO_SELLER") =>
              /\ room.contract.status = "COMPLETED"
              /\ room.contract.released_to = SELLER_ID
              /\ wallets[SELLER_ID] =
                    [balance |-> InitialSellerBalance + 100, locked |-> 0]
              /\ wallets[BUYER_ID] = [balance |-> 900, locked |-> 0]
              /\ room.status = "COMPLETE"

\* the buyer has confirmed in the room of amount 100
C14_Witness ==
    /\ room.amount = 100
    /\ room.status = "COMPLETE"
    /\ room.contract.signatures["BUYER"].decision = "RELEASE_TO_SELLER"
    /\ room.contract.signatures["SELLER"].decision = "RELEASE_TO_SELLER"

\* the decision the arbiter signs for a verdict
VerdictDecision(verdict) ==
    IF verdict = "APPROVE" THEN "RELEASE_TO_SELLER" ELSE "REFUND_TO_BUYER"

\* C15 (scenario B): finalize maps the verdict APPROVE to an arbiter signature for
\* RELEASE_TO_SELLER and any other verdict to REFUND_TO_BUYER, recorded through
\* sign in the AI_ORACLE slot with a signature of the arbiter's key over the
\* canonical message; with the seller's RELEASE_TO_SELLER and the buyer's
\* REFUND_TO_BUYER recorded, an APPROVE verdict completes the contract in favour
\* of the seller, the buyer's dispute signature still in its slot.
C15_ScenarioB ==
    [][ /\ \A c \in Conns :
             ( /\ conn[c].pc = "finalize_submission_verify"
               /\ conn'[c].pc \in {"finalize_submission_wallets", "commit"} ) =>
                LET before == conn[c].room.contract
                    after == conn'[c].room.contract
                    d == VerdictDecision(conn'[c].room.ai_verdict)
                    slot == after.signatures["AI_ORACLE"]
                IN /\ conn'[c].room.ai_verdict \in Verdicts
                   /\ slot.verified /\ slot.decision = d
                   /\ slot.signature_hex =
                         [key |-> AI_PRIVATE_KEY,
                          msg |-> <<before.contract_id, "AI_ORACLE", d>>]
                   /\ \A p \in {"BUYER", "SELLER"} :
                         after.signatures[p] = before.signatures[p]
                   /\ ( /\ before.signatures["SELLER"].verified
                        /\ before.signatures["SELLER"].decision = "RELEASE_TO_SELLER"
                        /\ before.signatures["BUYER"].verified
                        /\ before.signatures["BUYER"].decision = "REFUND_TO_BUYER"
                        /\ d = "RELEASE_TO_SELLER" ) =>
                          /\ after.status = "COMPLETED"
                          /\ after.released_to = SELLER_ID
                          /\ conn'[c].pc = "finalize_submission_wallets"
        /\ (room'.dispute_status = "RESOLVED" /\ room'.ai_verdict = "APPROVE") =>
              /\ room'.contract.status = "COMPLETED"
              /\ room'.contract.released_to = SELLER_ID
              /\ room'.contract.signatures["BUYER"].decision = "REFUND_TO_BUYER"
              /\ room'.status = "COMPLETE"
              /\ wallets'[SELLER_ID].balance = InitialSellerBalance + room'.amount
              /\ wallets'[BUYER_ID].locked = 0 ]_vars

\* the dispute of a delivered room has been resolved for the seller against the
\* buyer's REFUND_TO_BUYER
C15_Witness ==
    /\ room.ai_verdict = "APPROVE"
    /\ room.contract.status = "COMPLETED"
    /\ room.contract.released_to = SELLER_ID
    /\ room.contract.signatures["BUYER"].verified
    /\ room.contract.signatures["BUYER"].decision = "REFUND_TO_BUYER"
    /\ room.contract.signatures["AI_ORACLE"].decision = "RELEASE_TO_SELLER"
    /\ room.status = "COMPLETE"

\* C18: buyer_lock_funds by the room's buyer in AWAITING_PAYMENT with a balance
\* below the room amount fails and persists no change: the failing step leaves
\* the room (its status, its contract column) and the wallets (balance, locked)
\* as they were and leaves no wallet change pending, and the contract the
\* handler had put on its Room object is dropped before the connection's next
\* handler goes on, so that no later commit on the connection stores it.
C18_InsufficientFundsPersistsNothing ==
    [][\A c \in Conns :
         /\ (conn[c].pc = "lock_funds_wallet" /\ conn'[c] # conn[c]) =>
               LET u == conn[c].user
                   user_wallet == IF conn[c].wl[u].loaded THEN conn[c].wl[u] ELSE wallets[u]
               IN IF user_wallet.balance < conn[c].room.amount
                  THEN /\ conn'[c].pc = "idle"
                       /\ room' = room /\ wallets' = wallets
                       /\ conn'[c].wdirty = {}
                       /\ conn'[c].leftover = {"contract"}
                  ELSE conn'[c].pc = "commit"
         /\ "contract" \in conn'[c].leftover => conn'[c].pc = "idle"
         /\ Commits(c) => conn[c].leftover = {} ]_vars

\* the buyer, 600 of whose 1000 are locked elsewhere, has tried to lock 600: the
\* room is as before and the attempt's contract is still on the Room object of
\* the connection
C18_Witness ==
    /\ room.status = "AWAITING_PAYMENT" /\ room.contract = NoContract
    /\ wallets[BUYER_ID].balance < room.amount
    /\ wallets[BUYER_ID] \in BuyerWallets
    /\ \E c \in Conns :
          /\ conn[c].pc = "idle" /\ conn[c].leftover = {"contract"}
          /\ conn[c].room.contract.status = "ACTIVE"

\* C19: a handler that raises is caught at the dispatch boundary and touches
\* the triggering connection only, and none of its uncommitted changes to the
\* room, its contract or a wallet is persisted, neither at that moment nor by a
\* later commit on the connection: the step back to the receive loop without a
\* commit changes no row and no other connection and leaves no wallet change
\* pending; what it leaves pending on the Room object is dropped when the
\* connection's next handler starts, which works on the persisted values, so
\* that no commit ever writes it.
C19_RaiseRollsBack ==
    [][\A c \in Conns :
         /\ (conn[c].pc \notin CommitPcs /\ conn'[c].pc = "idle" /\ conn'[c] # conn[c]) =>
               /\ <<room, wallets, funds_released, occupancy>>' =
                     <<room, wallets, funds_released, occupancy>>
               /\ \A d \in Conns \ {c} : conn'[d] = conn[d]
               /\ conn'[c].wdirty = {}
               /\ conn'[c].leftover = conn'[c].dirty
         /\ (conn[c].pc = "idle" /\ conn'[c].pc # "idle") =>
               /\ conn'[c].leftover = {}
               /\ \A a \in DOMAIN room :
                     a \notin conn'[c].dirty => conn'[c].room[a] = room[a]
         /\ conn'[c].leftover # {} => conn'[c].pc = "idle"
         /\ Commits(c) =>
               /\ conn[c].leftover = {}
               /\ \A a \in DOMAIN room : a \notin conn[c].dirty => room'[a] = room[a] ]_vars

\* a handler has raised with a change pending on its Room object, and the room
\* has moved on without it: the connection sits in its receive loop, the
\* persisted contract is not the one it holds
C19_Witness ==
    \E c \in Conns :
        /\ conn[c].pc = "idle" /\ conn[c].leftover # {}
        /\ room.status \in {"PRODUCT_DELIVERED", "COMPLETE"}
        /\ room.contract.status \in {"ACTIVE", "COMPLETED"}
        /\ \E a \in conn[c].leftover : conn[c].room[a] # room[a]

\* the places where init_dispute and finalize_submission wait for the broker,
\* the classifier or the verifier
ExternalCallPcs ==
    { "initiate_dispute_reload", "initiate_dispute_classify",
      "finalize_submission_reload", "finalize_submission_verify" }

\* C20: a failure of the classifier, the verifier or the broker during
\* init_dispute or finalize_submission does not corrupt the room or its contract:
\* the failed call adds no signature, completes no contract and moves no funds
\* (it changes no row and leaves nothing pending), and after a verifier failure
\* the room has dispute_status IN_REVIEW, its contract is ACTIVE and the wallets
\* are as before.
C20_ExternalFailureCorruptsNothing ==
    [][\A c \in Conns :
         ( /\ conn[c].pc \in ExternalCallPcs
           /\ conn'[c].pc = "idle"
           /\ conn'[c].leftover = {} ) =>
            /\ room' = room /\ wallets' = wallets /\ funds_released' = funds_released
            /\ conn'[c].dirty = {} /\ conn'[c].wdirty = {}
            /\ conn[c].pc = "finalize_submission_verify" =>
                  /\ room'.dispute_status = "IN_REVIEW"
                  /\ room'.contract.status = "ACTIVE" ]_vars

\* a dispute parked in IN_REVIEW: the review has been committed and no call of
\* finalize_submission is in progress any more
ParkedInReview ==
    /\ room.dispute_status = "IN_REVIEW"
    /\ \A c \in Conns : conn[c].handler # "finalize_submission"

\* finalize_submission sent by the seller passes its guard and goes on to its
\* first commit, after which the verifier is called
FinalizeGoesOn ==
    \E c \in Conns :
        /\ conn[c].user = SELLER_ID
        /\ handle_finalize_submission(c)
        /\ conn'[c].pc = "finalize_submission_commit"

\* C21: a dispute parked in IN_REVIEW after a failed verifier call is finished
\* by a retry of finalize: finalize_submission re-invoked by the seller runs the
\* verification again (and with the verifier's answer the dispute reaches
\* RESOLVED), without recording a signature or moving funds a second time.
C21_ParkedReviewCanBeRetried ==
    ParkedInReview => ENABLED FinalizeGoesOn

\* the other one of the two approval states
OtherApproval(status) ==
    IF status = "AWAITING_SELLER_APPROVAL" THEN "AWAITING_BUYER_APPROVAL"
    ELSE "AWAITING_SELLER_APPROVAL"

\* connection c goes from its receive loop into the work of propose_description
\* or edit_description: the text and the next status are pending
SetsDescription(c) ==
    /\ conn[c].pc = "idle"
    /\ conn'[c].pc = "commit"
    /\ conn'[c].handler \in {"propose_description", "edit_description"}

\* what every accepted propose or edit does, whoever may send it: a non-empty
\* text and the status are the only pending changes (the text is pending when
\* it differs from the stored one), nothing is written yet, and the
\* status goes from AWAITING_DESCRIPTION (propose) or an approval state (edit)
\* to the (other) approval state
SetsTextAndFlipsTurn(c) ==
    /\ "status" \in conn'[c].dirty /\ conn'[c].dirty \subseteq {"description", "status"}
    /\ conn'[c].room.description \in Descriptions
    /\ conn'[c].room.description # room.description => "description" \in conn'[c].dirty
    /\ room' = room
    /\ conn'[c].handler = "propose_description" =>
          /\ conn[c].user = room.buyer_id /\ room.status = "AWAITING_DESCRIPTION"
          /\ conn'[c].room.status = "AWAITING_SELLER_APPROVAL"
    /\ conn'[c].handler = "edit_description" =>
          /\ room.status \in {"AWAITING_SELLER_APPROVAL", "AWAITING_BUYER_APPROVAL"}
          /\ conn'[c].room.status = OtherApproval(room.status)

\* the pending text and status of a propose or edit are what its commit writes,
\* and the description of the room changes in no other step
DescriptionWrittenOnlyByProposeOrEdit ==
    /\ \A c \in Conns :
          (/\ conn[c].pc = "commit" /\ conn'[c].pc = "idle"
           /\ conn[c].handler \in {"propose_description", "edit_description"}) =>
              \A a \in conn[c].dirty : room'[a] = conn[c].room[a]
    /\ room'.description # room.description =>
          \E c \in Conns :
              /\ conn[c].pc = "commit" /\ conn'[c].pc = "idle"
              /\ conn[c].handler \in {"propose_description", "edit_description"}

\* C29, as stated: the buyer proposes first, and thereafter an edit is accepted
\* only from the party that is NOT the one named by the current
\* AWAITING_*_APPROVAL status; every accepted propose or edit sets the text and
\* flips the turn, and an edit by the other party starts nothing.
C29_OnlyUnnamedPartyEdits ==
    [][ /\ \A c \in Conns : SetsDescription(c) =>
              /\ SetsTextAndFlipsTurn(c)
              /\ conn'[c].handler = "edit_description" =>
                    \/ conn[c].user = room.buyer_id /\ room.status = "AWAITING_SELLER_APPROVAL"
                    \/ conn[c].user = SELLER_ID /\ room.status = "AWAITING_BUYER_APPROVAL"
        /\ DescriptionWrittenOnlyByProposeOrEdit ]_vars

\* C29, amended: the buyer proposes first, and thereafter an edit is accepted
\* only from the party that IS named by the current AWAITING_*_APPROVAL status
\* (the seller in AWAITING_SELLER_APPROVAL, the buyer in
\* AWAITING_BUYER_APPROVAL); every accepted propose or edit sets the text and
\* flips the turn, and an edit by the other party starts nothing.
C29_OnlyNamedPartyEdits ==
    [][ /\ \A c \in Conns : SetsDescription(c) =>
              /\ SetsTextAndFlipsTurn(c)
              /\ conn'[c].handler = "edit_description" =>
                    \/ conn[c].user = SELLER_ID /\ room.status = "AWAITING_SELLER_APPROVAL"
                    \/ conn[c].user = room.buyer_id /\ room.status = "AWAITING_BUYER_APPROVAL"
        /\ DescriptionWrittenOnlyByProposeOrEdit ]_vars

\* C29 witness: the seller has edited the buyer's proposal (only that leads to
\* AWAITING_BUYER_APPROVAL) and the buyer's edit in return is about to be
\* committed
C29_Witness ==
    /\ room.status = "AWAITING_BUYER_APPROVAL"
    /\ room.description \in Descriptions
    /\ \E c \in Conns :
          /\ conn[c].user = room.buyer_id
          /\ conn[c].pc = "commit" /\ conn[c].handler = "edit_description"
          /\ conn[c].room.status = "AWAITING_SELLER_APPROVAL"

\* the room's contract is ACTIVE, holds the seller's RELEASE and nothing of the
\* buyer
SellerReleaseRecorded ==
    /\ room.contract.status = "ACTIVE"
    /\ room.contract.signatures["SELLER"].verified
    /\ room.contract.signatures["SELLER"].decision = "RELEASE_TO_SELLER"
    /\ ~room.contract.signatures["BUYER"].verified

\* C22: locked funds are not held forever when the buyer goes silent: once the
\* room's contract is ACTIVE with the seller's RELEASE recorded, either the buyer
\* acts after all (signs, or opens a dispute) or, the timeout passing, the
\* timeout check completes the room's contract and the funds go to the seller.
C22_TimeoutReleasesLockedFunds ==
    SellerReleaseRecorded ~>
        \/ room.contract.signatures["BUYER"].verified
        \/ room.status = "DISPUTE"
        \/ /\ room.contract.status = "COMPLETED"
           /\ room.contract.released_to = SELLER_ID

\* the SELLER slot of the contract holds a verified RELEASE_TO_SELLER signature
\* that is exact for it
SellerReleaseSigned(contract) ==
    /\ contract.signatures["SELLER"].verified
    /\ contract.signatures["SELLER"].decision = "RELEASE_TO_SELLER"
    /\ IsExactSignature(contract, "SELLER", "RELEASE_TO_SELLER",
                        contract.signatures["SELLER"].signature_hex)

\* C31: a room is PRODUCT_DELIVERED, in DISPUTE or COMPLETE only with a verified
\* RELEASE_TO_SELLER signature in the SELLER slot of its persisted contract:
\* product_delivered starts its work only on a MONEY_SECURED room and with such
\* a signature, which it records together with the new status, and otherwise
\* leaves the room and the contract as they were.
C31_DeliveredOnlyWithSellerRelease ==
    /\ [](room.status \in {"PRODUCT_DELIVERED", "DISPUTE", "COMPLETE"} =>
             SellerReleaseSigned(room.contract))
    /\ [][ \A c \in Conns :
             /\ (conn[c].pc = "idle" /\ conn'[c].handler = "product_delivered") =>
                   /\ conn[c].user = SELLER_ID /\ room.status = "MONEY_SECURED"
                   /\ conn'[c].room.status = "PRODUCT_DELIVERED"
                   /\ SellerReleaseSigned(conn'[c].room.contract)
                   /\ {"status", "contract"} \subseteq conn'[c].dirty
                   /\ room' = room
             /\ (/\ conn[c].pc = "idle" /\ conn'[c].pc = "idle"
                 /\ \A d \in Conns \ {c} : conn'[d] = conn[d]) => room' = room
         ]_vars

\* what create_contract fixes: the id, the two parties, the amount and the keys
ContractIdentity(contract) ==
    <<contract.contract_id, contract.buyer_id, contract.seller_id, contract.amount,
      contract.public_keys>>

\* C40: the persisted room has a contract exactly when its status is
\* MONEY_SECURED or later, and the contract is created once: from then on its
\* contract_id, buyer, seller, amount and public keys never change and no
\* recorded signature is dropped.
C40_ContractCreatedOncePerRoom ==
    /\ [](room.contract # NoContract <=>
             room.status \in {"MONEY_SECURED", "PRODUCT_DELIVERED", "DISPUTE", "COMPLETE"})
    /\ [][ room.contract # NoContract =>
             /\ ContractIdentity(room'.contract) = ContractIdentity(room.contract)
             /\ \A p \in Party : room.contract.signatures[p].verified =>
                                    room'.contract.signatures[p].verified
         ]_vars

\* what the buyer's wallet holds locked for rooms other than this one: its locked
\* amount less the amount of this room while the room's contract is ACTIVE
LockedElsewhere(rows, r) ==
    rows[BUYER_ID].locked - (IF r.contract.status = "ACTIVE" THEN r.amount ELSE 0)

\* C34: in every persisted state the buyer's locked amount is the sum of the
\* amounts of the buyer's rooms whose contract is ACTIVE: it starts as the sum
\* over the earlier rooms, and every step changes it by exactly the amount of
\* this room when the room's contract becomes ACTIVE (lock-funds) or stops being
\* ACTIVE (execution), and by nothing otherwise.
C34_LockedIsSumOfActiveContracts ==
    /\ [](LockedElsewhere(wallets, room) \in {0} \cup Amounts)
    /\ [][ LockedElsewhere(wallets', room') = LockedElsewhere(wallets, room) ]_vars

\* C35: the persisted room is COMPLETE exactly when its contract is COMPLETED,
\* and once it is COMPLETE no step, of a later handler or of one that was
\* already running, changes its status, dispute_status or contract, or a wallet.
C35_CompleteIsFinal ==
    /\ [](room.status = "COMPLETE" <=> room.contract.status = "COMPLETED")
    /\ [][ room.status = "COMPLETE" =>
             /\ room'.status = room.status
             /\ room'.dispute_status = room.dispute_status
             /\ room'.contract = room.contract
             /\ wallets' = wallets
         ]_vars

\* the statuses of a room whose negotiation is over
AfterNegotiation ==
    {"AWAITING_SELLER_READY", "AWAITING_PAYMENT", "MONEY_SECURED", "PRODUCT_DELIVERED",
     "DISPUTE", "COMPLETE"}

\* the approval state that names the user: the description stored under it was
\* written by the other party
AwaitedApproval(user) ==
    IF user = SELLER_ID THEN "AWAITING_SELLER_APPROVAL" ELSE "AWAITING_BUYER_APPROVAL"

\* the commit of connection c's handler reaches the database
Lands(c, handlers) ==
    /\ conn[c].pc = "commit" /\ conn'[c].pc = "idle"
    /\ conn[c].handler \in handlers

\* C39: the room enters AWAITING_SELLER_READY only by an approval, and the
\* description it then carries was written by the party that is not the
\* approver: the approval lands on a room whose stored status awaits the
\* approver. Once the negotiation is over no propose or edit lands and the
\* description stays as it is.
C39_DescriptionApprovedByOtherParty ==
    [][ /\ (room.status # "AWAITING_SELLER_READY" /\ room'.status = "AWAITING_SELLER_READY") =>
              \E c \in Conns : /\ Lands(c, {"approve_description"})
                                /\ room.status = AwaitedApproval(conn[c].user)
        /\ room.status \in AfterNegotiation =>
              /\ room'.description = room.description
              /\ \A c \in Conns : ~Lands(c, {"propose_description", "edit_description"})
      ]_vars

\* the dispute is over: the funds are released
DisputeSettled ==
    /\ room.dispute_status = "RESOLVED"
    /\ room.contract.status = "COMPLETED"
    /\ room.status = "COMPLETE"

\* C38: every opened dispute ends with the funds released: when the calls to
\* the classifier and the verifier succeed and the seller finalizes the
\* submission, a room in DISPUTE eventually is RESOLVED with its contract
\* COMPLETED and status COMPLETE, and no room stays in DISPUTE with
\* dispute_status RESOLVED or IN_REVIEW forever.
C38_DisputeEndsWithFundsReleased ==
    /\ (room.status = "DISPUTE") ~> DisputeSettled
    /\ ~<>[](room.status = "DISPUTE" /\ room.dispute_status \in {"RESOLVED", "IN_REVIEW"})

\* ------------------------------------------------------------------ claims on presence
\* C7: across all server processes and under any interleaving of connect and
\* disconnect calls, the room's occupancy set never holds more than 2 distinct
\* identities.
C7_OccupancyAtMostTwo == Cardinality(occupancy) <= 2

\* C23: the room's buyer identity is set at most once: once a buyer has joined,
\* no later or concurrent join by a different buyer replaces it, and no
\* connection of a different buyer is admitted to the room.
C23_BuyerSetAtMostOnce ==
    [][ /\ room.buyer_id # "None" => room'.buyer_id = room.buyer_id
        /\ \A c \in Conns :
              (conn'[c].pc = "idle" /\ Role(conn'[c].user) = "BUYER") =>
                  conn'[c].user = room'.buyer_id ]_vars

\* C27: a seller or buyer who connects while their identity is already in the
\* room's occupancy set is a reconnect: the stale entry is removed before the
\* occupancy check, and the connection is never refused as room full.
C27_ReconnectNeverRoomFull ==
    [][ \A c \in Conns :
          /\ (conn[c].pc = "evict" /\ conn'[c].pc # "evict") =>
                (conn[c].user \notin occupancy' /\ conn'[c].pc = "connect_scard")
          /\ (conn[c].pc = "connect_scard" /\ conn[c].stale) => conn'[c].pc # "cleanup"
      ]_vars

\* connection c was admitted and is in its receive loop
Live(c) == conn[c].pc = "idle"
\* connection c was admitted and its disconnect has not completed
Admitted(c) == Live(c) \/ (conn[c].pc = "cleanup" /\ conn[c].reason = "None")

\* C36: the occupancy set is the set of the identities that hold a live
\* admitted connection: the identity of a live connection is never missing from
\* it, and an identity is in it only while one of its admitted connections has
\* not completed its disconnect.
C36_OccupancyIsLiveIdentities ==
    /\ \A c \in Conns : Live(c) => conn[c].user \in occupancy
    /\ \A u \in occupancy : \E c \in Conns : Admitted(c) /\ conn[c].user = u

\* no connection is open or being opened or closed
EveryoneDisconnected == \A c \in Conns : conn[c].pc = "closed"

\* C33: the disconnect of a connection takes its identity out of the occupancy
\* set of the room it named, adds nothing to the set, and leaves the connection
\* without a socket and without a reader task; once every participant has
\* disconnected the occupancy set is empty and no reader task is running.
C33_DisconnectCleansUp ==
    /\ [](EveryoneDisconnected =>
             /\ occupancy = {}
             /\ \A c \in Conns : conn[c].reader = "None")
    /\ [][ \A c \in Conns :
             (conn[c].pc = "cleanup" /\ conn'[c].pc = "closed") =>
                 /\ conn'[c].reader = "None"
                 /\ occupancy' \subseteq occupancy
                 /\ (conn[c].user # "None" /\ conn[c].room_phrase = ROOM_PHRASE) =>
                       conn[c].user \notin occupancy'
         ]_vars

\* C33 witness: a buyer has joined the room, and every connection has been
\* closed again
C33_Witness ==
    /\ EveryoneDisconnected
    /\ room.buyer_id # "None"
    /\ occupancy = {}

\* ------------------------------------------------------------------ claims on the reader task
\* the step is a send_json call of the reader
Sends == Len(pubsub'.sent) = Len(pubsub.sent) + 1
LastSent == pubsub'.sent[Len(pubsub'.sent)]

\* C32: a failure sending a broadcast to one local socket never aborts the
\* broadcast: the failing socket, and only it, is evicted from the local table,
\* the loop goes on to the other sockets and the reader task keeps running; a
\* message whose forwarding is over has been sent to every local socket that
\* is open.
C32_SendFailureEvictsOnlyThatSocket ==
    [][ /\ (Sends /\ LastSent.raised # "None") =>
              /\ pubsub'.task = "running"
              /\ pubsub'.local_connections = pubsub.local_connections \ {LastSent.connection}
              /\ pubsub'.connections = pubsub.connections \ {LastSent.connection}
        /\ (pubsub.message # NoMessage /\ pubsub'.message = NoMessage
              /\ pubsub'.task # "cancelled" /\ ~pubsub.resized) =>
              \A w \in pubsub'.local_connections \ pubsub'.gone :
                  \E i \in 1..Len(pubsub'.sent) :
                      pubsub'.sent[i] = [message |-> pubsub.message, connection |-> w,
                                         raised |-> "None"]
      ]_vars

\* ------------------------------------------------------------------ claims on the message log
\* C24: the message log is append-only under any interleaving of chat messages,
\* joins and leaves: a commit that changes the log adds one message at its end,
\* so that no persisted message is removed, replaced or reordered and the order
\* of the log is the order of the commits.
C24_LogAppendOnly ==
    [][ room'.messages # room.messages =>
          /\ Len(room'.messages) = Len(room.messages) + 1
          /\ SubSeq(room'.messages, 1, Len(room.messages)) = room.messages ]_vars

\* ------------------------------------------------------------------ claims on refused attempts
NotFoundReasons == {"Room not found", "User not found", "No wallet found"}

\* C28: a connection attempt that names a room or a user without a row is refused
\* with the reason that says so and is never partially admitted: neither the
\* refusal nor its cleanup changes the room's row (buyer identity, status,
\* message log) or the room's occupancy set, nothing is pending in its session,
\* and no reader task runs for it.
C28_NotFoundRefusedWhole ==
    [][ \A c \in Conns :
          /\ (conn[c].pc = "closed" /\ conn'[c].pc # "closed") =>
                /\ (conn'[c].room_phrase # ROOM_PHRASE \/ conn'[c].user = "None")
                      <=> conn'[c].reason \in NotFoundReasons
                /\ conn'[c].room_phrase # ROOM_PHRASE => conn'[c].reason = "Room not found"
                /\ conn'[c].reason \in NotFoundReasons =>
                      /\ conn'[c].pc = "cleanup"
                      /\ conn'[c].dirty = {} /\ conn'[c].wdirty = {}
                      /\ conn'[c].reader = "None"
                      /\ room' = room /\ occupancy' = occupancy /\ wallets' = wallets
          /\ (conn[c].reason \in NotFoundReasons /\ conn'[c] # conn[c]) =>
                /\ conn'[c] = NewSession
                /\ room' = room /\ occupancy' = occupancy /\ wallets' = wallets
      ]_vars

\* C28 witness: an attempt of a user who is connected to the room, naming a
\* phrase that has no row, has been refused and is about to be cleaned up
C28_Witness ==
    \E c, d \in Conns :
        /\ conn[c].pc = "cleanup" /\ conn[c].reason = "Room not found"
        /\ conn[c].user \in occupancy
        /\ conn[d].pc = "idle" /\ conn[d].user = conn[c].user

\* ------------------------------------------------------------------ event_handler.py: broadcast_state_update
\* the payload built from the Room object, which the commit before it has
\* expired: its attributes are read from the row (escrow_address and
\* submitted_evidence, which no handler writes, are left out)
state_update_message(r) ==
    IF r.status = "DISPUTE"
    THEN [ type |-> "state_update", description |-> r.description,
           dispute_status |-> r.dispute_status,
           required_evidence |-> r.required_evidence,
           ai_verdict |-> r.ai_verdict, contract |-> r.contract ]
    ELSE [ type |-> "state_update", description |-> r.description,
           status |-> r.status, contract |-> r.contract ]

\* what a participant holds of the room, and what it holds after a payload:
\* the keys the payload carries replace the held values, the others stay
SnapshotKeys == {"status", "dispute_status", "description", "contract"}
NothingHeld == [k \in SnapshotKeys |-> IF k = "contract" THEN NoContract ELSE "None"]
apply_state_update(held, payload) ==
    [k \in SnapshotKeys |-> IF k \in DOMAIN payload THEN payload[k] ELSE held[k]]

\* connection c's step publishes a state_update: the commit that ends a handler
\* (chat publishes the message instead), or the broadcast after the first
\* commit of initiate_dispute and finalize_submission
PublishesStateUpdate(c) ==
    \/ /\ conn[c].pc = "commit" /\ conn'[c].pc = "idle"
       /\ conn[c].handler # "chat_message"
    \/ /\ conn[c].pc = "initiate_dispute_reload"
       /\ conn'[c].pc = "initiate_dispute_classify"
    \/ /\ conn[c].pc = "finalize_submission_reload"
       /\ conn'[c].pc = "finalize_submission_verify"

\* C26: every state_update payload is a full snapshot: a participant that holds
\* nothing of the room and applies the payload just published alone holds the
\* persisted status, dispute_status, description and contract of the room.
C26_StateUpdateIsFullSnapshot ==
    [][ \A c \in Conns : PublishesStateUpdate(c) =>
          LET held == apply_state_update(NothingHeld, state_update_message(room'))
          IN \A k \in SnapshotKeys : held[k] = room'[k] ]_vars

\* ------------------------------------------------------------------ claims on the broadcast
\* C25: broadcast delivery reaches every connected participant: no message
\* published for the room after a participant's connect has returned, and
\* before its client goes away, fails to be handed to that participant's
\* socket.
C25_NoPublishedMessageMissed ==
    \A c \in Conns : ~conn[c].missed

============================================================================
